---- MODULE Spec2Model ----
(***************************************************************************)
(* Verification model of the file-upload sink core of vector-extensions:   *)
(* the on-disk Checkpointer, the upload sink loop, the per-backend         *)
(* idempotence check and the S3 multipart uploader.                        *)
(*                                                                         *)
(* Time is a natural number (one unit = one clock tick of SystemTime /     *)
(* Utc::now).  An UploadKey is a record (filename, bucket, object_key).    *)
(* A file version is identified by its modification time: every            *)
(* modification gives the file a new mtime and new content.                *)
(***************************************************************************)
EXTENDS Integers, Sequences, FiniteSets, TLC

\* ------------------------------------------------------------------ bounds
\* The clock runs from 0 to MaxTime.
MaxTime == 2
\* The configured expire_after ranges over 0..MaxExpire.
MaxExpire == 1
\* The configured delay_upload ranges over 0..MaxDelay.
MaxDelay == 1
\* One call of the backend uploader takes 0..MaxUploadDur ticks.
MaxUploadDur == 1
\* The process owning a data directory is restarted at most MaxRestarts times.
MaxRestarts == 1
\* The clock of the Checkpointer's specification runs from 0 to MaxCkTime.
MaxCkTime == 1
\* A local file holds 0..MaxFileSize bytes.
MaxFileSize == 1
\* A file of the multipart path has 1..MaxParts chunks.
MaxParts == 3
\* One ListParts request returns at most MaxListedParts parts (1000 on S3).
MaxListedParts == 2
\* A chunk holds MaxChunkBytes bytes (8 MiB in the build).
MaxChunkBytes == 2
\* EtagCalculator::new is given a limit of 1..MaxEtagChunks chunks (10000 in
\* the build).
MaxEtagChunks == 2
\* EtagCalculator::file is called for at most MaxEtagCalls other keys.
MaxEtagCalls == 1
\* A file of the GCS and Azure uploads holds 0..MaxFulls full chunks.
MaxFulls == 2
\* The width of an Azure block id: format!("{:032}", ..).
BlockIdWidth == 32
\* The configured init_retry_delay is 0..MaxInitDelay seconds, or that
\* close to MAX_RETRY_DELAY.
MaxInitDelay == 2
\* The subscriber meets at most MaxFailures failures and connects at most
\* MaxConnects times.
MaxFailures == 7
MaxConnects == 2
\* const MAX_RETRY_DELAY: Duration = Duration::from_secs(60)
MAX_RETRY_DELAY == 60
\* The controller fetches the topology at most MaxFetches times.
MaxFetches == 3

\* The subscriber task: a clock of MaxClock seconds, MaxReceived responses,
\* MaxRunFailures failures and MaxRunConnects successful subscriptions.
MaxClock == 12
MaxReceived == 2
MaxRunFailures == 1
MaxRunConnects == 1

\* The parsers: keep_top_n is given up to MaxResponses responses;
\* downsampling a record of up to MaxItems items at timestamps 0..MaxTs.
MaxResponses == 3
MaxItems == 3
MaxTs == 3

\* run_once: the idle time after which the window buffer is flushed
FLUSH_IDLE_SECS == 10
\* const S3_MULTIPART_UPLOAD_MAX_CHUNKS
S3_MULTIPART_UPLOAD_MAX_CHUNKS == 10000

\* ------------------------------------------------------------- UploadKey
Bucket == "b"

MkKey(f, o) == [filename |-> f, bucket |-> Bucket, object_key |-> o]

\* The upload keys of the model: one file sent to two object keys.
Keys == {MkKey(1, 1), MkKey(1, 2)}

Files == {k.filename : k \in Keys}

NoKey == [filename |-> 0, bucket |-> Bucket, object_key |-> 0]

\* An inbound event: a log event or not, with the fields "message" and
\* "key" missing, present but not a byte string, or holding a name.
FieldBytes(n) == [kind |-> "bytes", val |-> n]

FieldMissing == [kind |-> "missing", val |-> 0]

FieldNotBytes == [kind |-> "not_bytes", val |-> 0]

MkEvent(l, m, k) == [is_log |-> l, message |-> m, key |-> k]

EventShapes ==
    {MkEvent(TRUE, FieldBytes(k.filename), FieldBytes(k.object_key)) : k \in Keys}
        \cup {MkEvent(FALSE, FieldBytes(1), FieldBytes(1)),
              MkEvent(TRUE, FieldMissing, FieldBytes(1)),
              MkEvent(TRUE, FieldBytes(1), FieldMissing),
              MkEvent(TRUE, FieldNotBytes, FieldBytes(1)),
              MkEvent(TRUE, FieldBytes(2), FieldNotBytes)}

\* UploadKey::from_event: None (NoKey) unless the event is a log event whose
\* message and key fields are both present byte strings.
from_event(event, bucket) ==
    IF ~event.is_log THEN NoKey
    ELSE IF event.message.kind # "bytes" THEN NoKey
    ELSE IF event.key.kind # "bytes" THEN NoKey
    ELSE [filename |-> event.message.val, bucket |-> bucket,
          object_key |-> event.key.val]

\* ---------------------------------------------------------- Checkpointer
\* CheckPointsView: two maps from UploadKey to a timestamp.
EmptyMap == [k \in {} |-> 0]

MapInsert(m, k, v) == [x \in (DOMAIN m) \cup {k} |-> IF x = k THEN v ELSE m[x]]

MapRemove(m, ks) == [x \in (DOMAIN m) \ ks |-> m[x]]

DefaultView == [upload_times |-> EmptyMap, expire_times |-> EmptyMap]

\* struct Checkpoint
MkCheckpoint(k, ua, ea) == [upload_key |-> k, upload_at |-> ua, expire_at |-> ea]

get_state_stamped_now(view, now) ==
    {[upload_key |-> k, upload_at |-> now, expire_at |-> view.expire_times[k]] :
        k \in DOMAIN view.expire_times}

\* CheckPointsView::get_state: one Checkpoint per key of expire_times; a key
\* missing from upload_times gets the current time.
get_state(view, now) ==
    {MkCheckpoint(k,
                  IF k \in DOMAIN view.upload_times THEN view.upload_times[k] ELSE now,
                  view.expire_times[k]) : k \in DOMAIN view.expire_times}

\* derive(Ord) on Checkpoint and UploadKey: lexicographic in field order.
KeyLess(a, b) ==
    \/ a.filename < b.filename
    \/ a.filename = b.filename /\ a.object_key < b.object_key

CheckpointLess(a, b) ==
    \/ KeyLess(a.upload_key, b.upload_key)
    \/ a.upload_key = b.upload_key /\ a.upload_at < b.upload_at
    \/ a.upload_key = b.upload_key /\ a.upload_at = b.upload_at
          /\ a.expire_at < b.expire_at

RECURSIVE SortedSeq(_)
\* The elements of a BTreeSet<Checkpoint> in iteration order.
SortedSeq(S) ==
    IF S = {} THEN <<>>
    ELSE LET m == CHOOSE x \in S : \A y \in S \ {x} : CheckpointLess(x, y)
         IN <<m>> \o SortedSeq(S \ {m})

RECURSIVE set_state_seq(_, _)
\* CheckPointsView::set_state: insert every checkpoint, in order, into both
\* maps (a later checkpoint of the same key overwrites an earlier one).
set_state_seq(view, cps) ==
    IF cps = <<>> THEN view
    ELSE set_state_seq(
             [upload_times |-> MapInsert(view.upload_times, Head(cps).upload_key,
                                         Head(cps).upload_at),
              expire_times |-> MapInsert(view.expire_times, Head(cps).upload_key,
                                         Head(cps).expire_at)],
             Tail(cps))

set_state(view, state) == set_state_seq(view, SortedSeq(state))

view_contains_strict(view, key, upload_time_after) ==
    IF key \in DOMAIN view.upload_times
    THEN view.upload_times[key] > upload_time_after
    ELSE FALSE

\* CheckPointsView::contains: the stored upload time is >= the given time.
view_contains(view, key, upload_time_after) ==
    IF key \in DOMAIN view.upload_times
    THEN view.upload_times[key] >= upload_time_after
    ELSE FALSE

\* CheckPointsView::update
view_update(view, key, upload_at, expire_at) ==
    [upload_times |-> MapInsert(view.upload_times, key, upload_at),
     expire_times |-> MapInsert(view.expire_times, key, expire_at)]

remove_expired_from_expire_times(view, now) ==
    LET expired == {k \in DOMAIN view.expire_times : view.expire_times[k] < now}
    IN [view EXCEPT !.expire_times = MapRemove(view.expire_times, expired)]

\* CheckPointsView::remove_expired: drop from both maps every key whose
\* expire time is strictly before now.
remove_expired(view, now) ==
    LET expired == {k \in DOMAIN view.expire_times : view.expire_times[k] < now}
    IN [upload_times |-> MapRemove(view.upload_times, expired),
        expire_times |-> MapRemove(view.expire_times, expired)]

\* CheckPointsView::len
view_len(view) == Cardinality(DOMAIN view.upload_times)

\* ------------------------------------------------------- files on disk
\* A file is absent, or holds bytes: a complete JSON document (full) or a
\* truncated one.  The JSON document of State::V1 is the version tag and the
\* list of checkpoints in BTreeSet order.
Absent == [exists |-> FALSE, full |-> FALSE, version |-> "", checkpoints |-> <<>>]

Truncated == [exists |-> TRUE, full |-> FALSE, version |-> "", checkpoints |-> <<>>]

\* serde_json::to_writer(State::V1 {checkpoints})
to_writer(state) ==
    [exists |-> TRUE, full |-> TRUE, version |-> "1", checkpoints |-> SortedSeq(state)]

SeqRange(s) == {s[i] : i \in DOMAIN s}

\* Checkpointer::read_checkpoints_file: NotFound for a missing file,
\* InvalidData for one serde_json cannot parse, else the State.
read_checkpoints_file(file) ==
    IF ~file.exists THEN [err |-> "NotFound", state |-> {}]
    ELSE IF ~file.full \/ file.version # "1" THEN [err |-> "InvalidData", state |-> {}]
    ELSE [err |-> "none", state |-> SeqRange(file.checkpoints)]

\* Checkpointer::new: empty view, last = empty State, disk untouched.
NewCheckpointer == [view |-> DefaultView, last |-> {}]

\* fs::rename(tmp, stable): atomically replaces stable by tmp.
Rename(disk) == [tmp |-> Absent, stable |-> disk.tmp]

\* Checkpointer::read_checkpoints.  renameOk: whether promoting the tmp
\* file succeeds.  Returns the checkpointer and the disk.
read_checkpoints(ck, disk, renameOk) ==
    LET t == read_checkpoints_file(disk.tmp)
        s == read_checkpoints_file(disk.stable)
    IN IF t.err = "none"
       THEN [ck |-> [view |-> set_state(ck.view, t.state), last |-> t.state],
             disk |-> IF renameOk THEN Rename(disk) ELSE disk]
       ELSE IF s.err = "none"
       THEN [ck |-> [view |-> set_state(ck.view, s.state), last |-> s.state],
             disk |-> disk]
       ELSE [ck |-> ck, disk |-> disk]

\* Checkpointer::contains
contains(ck, key, upload_time_after) == view_contains(ck.view, key, upload_time_after)

update_without_expire_after(ck, key, upload_time, expire_after) ==
    [ck EXCEPT !.view = view_update(ck.view, key, upload_time, upload_time)]

\* Checkpointer::update
update(ck, key, upload_time, expire_after) ==
    [ck EXCEPT !.view = view_update(ck.view, key, upload_time, upload_time + expire_after)]

\* The places where write_checkpoints can return an io::Error.
WriteOutcomes == {"ok", "create_err", "write_err", "sync_err", "rename_err"}

write_checkpoints_in_place(ck, disk, now, outcome) ==
    LET view == remove_expired(ck.view, now)
        state == get_state(view, now)
        pruned == [ck EXCEPT !.view = view]
    IN IF ck.last = state
       THEN [ck |-> pruned, disk |-> disk, ok |-> TRUE, count |-> view_len(view)]
       ELSE IF outcome = "create_err"
       THEN [ck |-> pruned, disk |-> disk, ok |-> FALSE, count |-> 0]
       ELSE IF outcome = "write_err"
       THEN [ck |-> pruned, disk |-> [disk EXCEPT !.stable = Truncated],
             ok |-> FALSE, count |-> 0]
       ELSE IF outcome \in {"sync_err", "rename_err"}
       THEN [ck |-> pruned, disk |-> [disk EXCEPT !.stable = to_writer(state)],
             ok |-> FALSE, count |-> 0]
       ELSE [ck |-> [view |-> view, last |-> state],
             disk |-> [disk EXCEPT !.stable = to_writer(state)],
             ok |-> TRUE, count |-> view_len(view)]

\* Checkpointer::write_checkpoints at time now.  outcome names how far the
\* filesystem calls get.  Returns the checkpointer, the disk and the result.
write_checkpoints(ck, disk, now, outcome) ==
    LET view == remove_expired(ck.view, now)
        state == get_state(view, now)
        pruned == [ck EXCEPT !.view = view]
    IN IF ck.last = state
       THEN [ck |-> pruned, disk |-> disk, ok |-> TRUE, count |-> view_len(view)]
       ELSE IF outcome = "create_err"
       THEN [ck |-> pruned, disk |-> disk, ok |-> FALSE, count |-> 0]
       ELSE IF outcome = "write_err"
       THEN [ck |-> pruned, disk |-> [disk EXCEPT !.tmp = Truncated],
             ok |-> FALSE, count |-> 0]
       ELSE IF outcome \in {"sync_err", "rename_err"}
       THEN [ck |-> pruned, disk |-> [disk EXCEPT !.tmp = to_writer(state)],
             ok |-> FALSE, count |-> 0]
       ELSE [ck |-> [view |-> view, last |-> state],
             disk |-> Rename([disk EXCEPT !.tmp = to_writer(state)]),
             ok |-> TRUE, count |-> view_len(view)]

\* ------------------------------------------- backend idempotence check
\* A fingerprint (S3 ETag, GCS md5, Azure o11y_etag tag) is a natural number;
\* NoFp stands for None, for an io::Error and for an absent object.
NoFp == -1

Fingerprints == {1, 2}

Backends == {"s3", "gcs", "azure"}

\* The reply to the fingerprint request (HeadObject, HEAD, GetProperties).
\* ok: the call returned Ok.  etag: HeadObjectOutput.e_tag (S3).  hashes: the
\* x-goog-hash header values in order (GCS).  has_tags, o11y_etag: blob.tags
\* and its o11y_etag entry (Azure).
MkResp(ok, etag, hashes, has_tags, tag) ==
    [ok |-> ok, etag |-> etag, hashes |-> hashes, has_tags |-> has_tags,
     o11y_etag |-> tag]

FailedResp == MkResp(FALSE, NoFp, <<>>, FALSE, NoFp)

\* One x-goog-hash header value: visible ASCII or not, and its text, a
\* comma-separated list of tokens name=value.
HashToken(name, val) == [name |-> name, val |-> val]

HeaderValue(ascii, tokens) == [ascii |-> ascii, tokens |-> tokens]

\* An Option<String> holding what follows "md5=" in a header value: the
\* value of the md5 token and the text after it.
NoHash == [some |-> FALSE, val |-> NoFp, rest |-> <<>>]

SomeHash(val, rest) == [some |-> TRUE, val |-> val, rest |-> rest]

\* S3Uploader::fetch_object_etag: the e_tag of a successful HeadObject.
fetch_object_etag(resp) == IF resp.ok THEN resp.etag ELSE NoFp

RECURSIVE split_once_md5(_)
\* value_str.split_once("md5="): everything after the first "md5=".
split_once_md5(tokens) ==
    IF tokens = <<>> THEN NoHash
    ELSE IF Head(tokens).name = "md5" THEN SomeHash(Head(tokens).val, Tail(tokens))
    ELSE split_once_md5(Tail(tokens))

RECURSIVE fetch_md5_loop(_)
\* The loop of GCSUploader::fetch_md5_hash over the x-goog-hash values: a
\* value that is not a string ends the search with None, the first value
\* holding "md5=" gives the hash.
fetch_md5_loop(hashes) ==
    IF hashes = <<>> THEN NoHash
    ELSE IF ~Head(hashes).ascii THEN NoHash
    ELSE IF split_once_md5(Head(hashes).tokens).some
    THEN split_once_md5(Head(hashes).tokens)
    ELSE fetch_md5_loop(Tail(hashes))

\* GCSUploader::fetch_md5_hash
fetch_md5_hash(resp) == IF resp.ok THEN fetch_md5_loop(resp.hashes) ELSE NoHash

NeedOk(b) == [err |-> FALSE, need |-> b]

NeedErr == [err |-> TRUE, need |-> FALSE]

s3_need_upload_unless_head_fails(resp, local) ==
    IF fetch_object_etag(resp) # NoFp
    THEN IF local = NoFp THEN NeedErr
         ELSE IF local = fetch_object_etag(resp) THEN NeedOk(FALSE)
         ELSE NeedOk(TRUE)
    ELSE NeedOk(resp.ok)

\* S3Uploader::need_upload.  local: the ETag EtagCalculator::file computes,
\* NoFp when it fails.
s3_need_upload(resp, local) ==
    IF fetch_object_etag(resp) # NoFp
    THEN IF local = NoFp THEN NeedErr
         ELSE IF local = fetch_object_etag(resp) THEN NeedOk(FALSE)
         ELSE NeedOk(TRUE)
    ELSE NeedOk(TRUE)

\* GCSUploader::need_upload.  local: calculate_file_md5_hash, NoFp on error;
\* the strings are equal when the md5 token's value is the local hash and
\* nothing follows it.
gcs_need_upload(resp, local) ==
    IF fetch_md5_hash(resp).some
    THEN IF local = NoFp THEN NeedErr
         ELSE NeedOk(~(fetch_md5_hash(resp).val = local
                       /\ fetch_md5_hash(resp).rest = <<>>))
    ELSE NeedOk(TRUE)

\* AzureBlobUploader::need_upload
azure_need_upload(resp, local) ==
    IF ~resp.ok THEN NeedOk(TRUE)
    ELSE IF ~resp.has_tags THEN NeedOk(TRUE)
    ELSE IF resp.o11y_etag = NoFp THEN NeedOk(TRUE)
    ELSE IF local = NoFp THEN NeedErr
    ELSE NeedOk(resp.o11y_etag # local)

need_upload(backend, resp, local) ==
    IF backend = "s3" THEN s3_need_upload(resp, local)
    ELSE IF backend = "gcs" THEN gcs_need_upload(resp, local)
    ELSE azure_need_upload(resp, local)

\* The result of upload(): ok is Ok/Err, count and events_byte_size are the
\* UploadResponse, wrote tells whether do_upload was invoked.
UploadResult(ok, count, size, wrote) ==
    [ok |-> ok, count |-> count, events_byte_size |-> size, wrote |-> wrote]

\* S3Uploader::upload, GCSUploader::upload, AzureBlobUploader::upload.
\* doOk: whether do_upload returns Ok; size: the bytes it reports.
upload(backend, resp, local, doOk, size) ==
    LET nu == need_upload(backend, resp, local)
    IN IF nu.err THEN UploadResult(FALSE, 0, 0, FALSE)
       ELSE IF nu.need
       THEN IF doOk THEN UploadResult(TRUE, 1, size, TRUE)
            ELSE UploadResult(FALSE, 0, 0, TRUE)
       ELSE UploadResult(TRUE, 0, 0, FALSE)

\* --------------------------------------------------------------- state
VARIABLES
    now,        \* the clock (SystemTime::now, Utc::now)
    mtime,      \* filename -> modification time of the local file
    remote,     \* UploadKey -> version (mtime) of the object in the store, NoFp if none
    cfg,        \* the sink's configuration: expire_after, delay_upload
    ck,         \* the Checkpointer: view (upload_times, expire_times) and last
    disk,       \* the data directory: checkpoints.new.json (tmp), checkpoints.json (stable)
    dq,         \* the sink's DelayQueue: entries (key, deadline) in insertion order
    pending,    \* the sink's pending_uploads set
    sink_pc,    \* "run" while S3UploadFileSink::run loops, "returned" after it
    last,       \* what the latest loop iteration did to its event (history)
    lastOk,     \* UploadKey -> version and upload_time of its latest Ok upload (history)
    proc,       \* the process owning the data directory: "up", "down" after a crash
    hist,       \* what the checkpointer was asked to persist (history)
    up,         \* one call of an uploader's upload(): its inputs and its result
    mp,         \* the S3 MultipartUploader: its fields and its position in upload()
    srv,        \* the S3 bucket: multipart uploads in progress, objects, request log
    etag,       \* the S3 EtagCalculator and the result of its last call of file()
    gcs,        \* the GCS resumable upload: its position, the requests sent, the session
    az,         \* the Azure block upload: its position, the requests sent
    sub,        \* the TopSQL subscriber's reconnect loop: retry_delay, the sleeps taken
    ctl,        \* the TopSQL controller: components, running_components, the tasks
    par         \* one call of a TopSQL parser function: its input and its output

sinkVars == <<now, mtime, remote, cfg, ck, disk, dq, pending, sink_pc, last, lastOk>>

coreVars == <<now, mtime, remote, cfg, ck, disk, dq, pending, sink_pc, last, lastOk,
              proc, hist, up, mp, srv>>

extVars == <<etag, gcs, az, sub, ctl, par>>

vars == <<coreVars, extVars>>

\* The value of a variable a specification does not use.
Unused == "unused"

ExtUnused ==
    /\ etag = Unused
    /\ gcs = Unused
    /\ az = Unused
    /\ sub = Unused
    /\ ctl = Unused
    /\ par = Unused

CoreUnused ==
    /\ now = Unused
    /\ mtime = Unused
    /\ remote = Unused
    /\ cfg = Unused
    /\ ck = Unused
    /\ disk = Unused
    /\ dq = Unused
    /\ pending = Unused
    /\ sink_pc = Unused
    /\ last = Unused
    /\ lastOk = Unused
    /\ proc = Unused
    /\ hist = Unused
    /\ up = Unused
    /\ mp = Unused
    /\ srv = Unused

\* file_modified_time returned Err.
NoFile == -1

EmptyDisk == [tmp |-> Absent, stable |-> Absent]

\* op: "event" or "fire"; key: the UploadKey; status: the EventStatus the
\* finalizers were given ("none": they went into the delay queue); res: the
\* result of uploader.upload ("ok1": count = 1, "ok0": count = 0); ver: the
\* mtime the event arm saw, or the file version the uploader read.
NoLast == [op |-> "none", key |-> NoKey, status |-> "none", res |-> "none", ver |-> NoFile]

MkLast(op, key, status, res, ver) ==
    [op |-> op, key |-> key, status |-> status, res |-> res, ver |-> ver]

\* S3UploadFileSink::file_modified_time: Err (NoFile) when stat fails.
file_modified_time(filename, statOk) == IF statOk THEN mtime[filename] ELSE NoFile

stat_never_fails(modified_time) == FALSE

\* The Err arm of the match on file_modified_time.
stat_failed(modified_time) == modified_time = NoFile

needs_queueing_always(checkpointer, pending_uploads, upload_key, modified_time) == TRUE

needs_queueing_unless_recorded(checkpointer, pending_uploads, upload_key, modified_time) ==
    ~contains(checkpointer, upload_key, modified_time)

\* The condition under which the event arm queues the key for upload.
needs_queueing(checkpointer, pending_uploads, upload_key, modified_time) ==
    /\ ~contains(checkpointer, upload_key, modified_time)
    /\ upload_key \notin pending_uploads

\* let upload_time = SystemTime::now() stands before the call of the
\* uploader: of the clock before and after the call, it is the one before.
capture_upload_time(before, after) == before

record_any_upload(checkpointer, ok, upload_key, upload_time, expire_after) ==
    update(checkpointer, upload_key, upload_time, expire_after)

\* The match on the uploader's result: only Ok updates the checkpointer.
record_upload(checkpointer, ok, upload_key, upload_time, expire_after) ==
    IF ok THEN update(checkpointer, upload_key, upload_time, expire_after)
    ELSE checkpointer

RemoveAt(s, i) == [j \in 1..(Len(s) - 1) |-> IF j < i THEN s[j] ELSE s[j + 1]]

\* The sink as build_processor constructs it: Checkpointer::new followed by
\* read_checkpoints on a fresh data directory, an empty delay queue and an
\* empty pending set.
SinkInit ==
    /\ now = 0
    /\ mtime = [f \in Files |-> 0]
    /\ remote = [k \in Keys |-> NoFp]
    /\ cfg \in [expire_after : 0..MaxExpire, delay_upload : 0..MaxDelay]
    /\ disk = EmptyDisk
    /\ ck = read_checkpoints(NewCheckpointer, EmptyDisk, TRUE).ck
    /\ dq = <<>>
    /\ pending = {}
    /\ sink_pc = "run"
    /\ last = NoLast
    /\ lastOk = [k \in Keys |-> [ver |-> NoFile, at |-> -1]]
    /\ proc = Unused
    /\ hist = Unused
    /\ up = Unused
    /\ mp = Unused
    /\ srv = Unused
    /\ ExtUnused

\* The clock advances.
Tick ==
    /\ sink_pc = "run"
    /\ now < MaxTime
    /\ now' = now + 1
    /\ last' = NoLast
    /\ UNCHANGED <<mtime, remote, cfg, ck, disk, dq, pending, sink_pc, lastOk>>
    /\ UNCHANGED <<proc, hist, up, mp, srv, extVars>>

\* Some program writes the local file: it gets the current time as mtime.
ModifyFile(f) ==
    /\ sink_pc = "run"
    /\ mtime[f] < now
    /\ mtime' = [mtime EXCEPT ![f] = now]
    /\ last' = NoLast
    /\ UNCHANGED <<now, remote, cfg, ck, disk, dq, pending, sink_pc, lastOk>>
    /\ UNCHANGED <<proc, hist, up, mp, srv, extVars>>

\* The input arm of the select in run: one event from the stream.  statOk:
\* whether the file can be stat'ed.
SinkEvent(event, statOk) ==
    /\ sink_pc = "run"
    /\ LET upload_key == from_event(event, Bucket)
           modified_time == file_modified_time(upload_key.filename, statOk)
       IN IF upload_key = NoKey
          THEN /\ last' = MkLast("event", NoKey, "Rejected", "none", NoFile)
               /\ UNCHANGED <<dq, pending>>
          ELSE IF stat_failed(modified_time)
          THEN /\ last' = MkLast("event", upload_key, "Rejected", "none", NoFile)
               /\ UNCHANGED <<dq, pending>>
          ELSE IF needs_queueing(ck, pending, upload_key, modified_time)
          THEN /\ dq' = Append(dq, [key |-> upload_key,
                                    deadline |-> now + cfg.delay_upload])
               /\ pending' = pending \cup {upload_key}
               /\ last' = MkLast("event", upload_key, "none", "none", modified_time)
          ELSE /\ last' = MkLast("event", upload_key, "Delivered", "none", modified_time)
               /\ UNCHANGED <<dq, pending>>
    /\ UNCHANGED <<now, mtime, remote, cfg, ck, disk, sink_pc, lastOk>>
    /\ UNCHANGED <<proc, hist, up, mp, srv, extVars>>

\* The ways write_checkpoints ends inside the sink loop.  An io::Error is
\* only logged there and changes nothing the loop reads; the failures of the
\* filesystem are explored in the Checkpointer's own specification.
SinkWriteOutcomes == {"ok"}

\* The delay-queue arm of the select in run: entry i has expired.  The
\* backend call takes dur ticks; headOk and doOk tell whether the fingerprint
\* request and do_upload succeed; the file is rewritten at modAt while the
\* call runs (modAt = 0: it is not) and readNew tells whether the uploader
\* reads the file after that; wo is the outcome of write_checkpoints.
SinkFire(i, headOk, doOk, dur, modAt, readNew, wo) ==
    /\ sink_pc = "run"
    /\ i \in DOMAIN dq
    /\ dq[i].deadline <= now
    /\ now + dur <= MaxTime
    /\ modAt = 0 \/ (now < modAt /\ modAt <= now + dur)
    /\ modAt = 0 => ~readNew
    /\ LET upload_key == dq[i].key
           upload_time == capture_upload_time(now, now + dur)
           ver == IF readNew THEN modAt ELSE mtime[upload_key.filename]
           resp == IF headOk /\ remote[upload_key] # NoFp
                   THEN MkResp(TRUE, remote[upload_key], <<>>, FALSE, NoFp)
                   ELSE FailedResp
           response == upload("s3", resp, ver, doOk, 1)
           updated == record_upload(ck, response.ok, upload_key, upload_time,
                                    cfg.expire_after)
           written == write_checkpoints(updated, disk, now + dur, wo)
       IN /\ dq' = RemoveAt(dq, i)
          /\ pending' = pending \ {upload_key}
          /\ now' = now + dur
          /\ mtime' = IF modAt = 0 THEN mtime
                      ELSE [mtime EXCEPT ![upload_key.filename] = modAt]
          /\ remote' = IF response.ok /\ response.count = 1
                       THEN [remote EXCEPT ![upload_key] = ver]
                       ELSE remote
          /\ ck' = written.ck
          /\ disk' = written.disk
          /\ last' = MkLast("fire", upload_key,
                            IF response.ok THEN "Delivered" ELSE "Rejected",
                            IF ~response.ok THEN "err"
                            ELSE IF response.count = 1 THEN "ok1" ELSE "ok0",
                            ver)
          /\ lastOk' = IF response.ok
                       THEN [lastOk EXCEPT ![upload_key] = [ver |-> ver, at |-> upload_time]]
                       ELSE lastOk
    /\ UNCHANGED <<cfg, sink_pc>>
    /\ UNCHANGED <<proc, hist, up, mp, srv, extVars>>

\* input.next() returned None: the loop breaks and run returns Ok(()).
SinkInputEnds ==
    /\ sink_pc = "run"
    /\ sink_pc' = "returned"
    /\ last' = NoLast
    /\ UNCHANGED <<now, mtime, remote, cfg, ck, disk, dq, pending, lastOk>>
    /\ UNCHANGED <<proc, hist, up, mp, srv, extVars>>

\* ---------------------------------------------------- the upload sink
Next ==
    \/ Tick
    \/ \E f \in Files : ModifyFile(f)
    \/ \E event \in EventShapes, statOk \in BOOLEAN : SinkEvent(event, statOk)
    \/ \E i \in DOMAIN dq, headOk \in BOOLEAN, doOk \in BOOLEAN,
          dur \in 0..MaxUploadDur, wo \in SinkWriteOutcomes :
            \E modAt \in {0} \cup ((now + 1)..(now + dur)), readNew \in BOOLEAN :
                SinkFire(i, headOk, doOk, dur, modAt, readNew, wo)
    \/ SinkInputEnds

Spec == SinkInit /\ [][Next]_vars

\* ------------------------------------------- properties of the upload sink
\* A well-formed log event naming the file and the object key of k.
GoodEvent(k) == MkEvent(TRUE, FieldBytes(k.filename), FieldBytes(k.object_key))

\* The checkpointer holds a record for k whose upload_at is >= t.
RecordCovers(c, k, t) ==
    /\ k \in DOMAIN c.view.upload_times
    /\ c.view.upload_times[k] >= t

\* The checkpoint record of k: <<upload_at, expire_at>>, or <<>> if none.
RecordOf(c, k) ==
    IF k \in DOMAIN c.view.upload_times
    THEN <<c.view.upload_times[k], c.view.expire_times[k]>>
    ELSE <<>>

\* C1: a repeated event for a key, with the file's mtime unchanged, that
\* arrives while the key is still pending, or less than expire_after after
\* the Ok upload of that file version, is finalized Delivered and starts no
\* second upload: the delay queue, the pending set and the object store stay
\* as they are, and the reason is the pending entry or a record whose
\* upload_at is >= the mtime.
C1_DuplicateEventSuppressed ==
    [][\A k \in Keys :
        (/\ SinkEvent(GoodEvent(k), TRUE)
         /\ \/ k \in pending
            \/ /\ lastOk[k].ver = mtime[k.filename]
               /\ mtime[k.filename] <= lastOk[k].at
               /\ now - lastOk[k].at < cfg.expire_after)
        => /\ last'.status = "Delivered"
           /\ dq' = dq
           /\ pending' = pending
           /\ remote' = remote
           /\ k \in pending \/ RecordCovers(ck, k, mtime[k.filename])]_vars

\* A duplicate event was Delivered on the strength of the record of the one
\* successful upload of the unchanged file, within expire_after.
C1_Witness ==
    /\ last.op = "event"
    /\ last.status = "Delivered"
    /\ last.key \in Keys
    /\ last.key \notin pending
    /\ lastOk[last.key].ver = last.ver
    /\ remote[last.key] = last.ver
    /\ now - lastOk[last.key].at < cfg.expire_after

\* C2 (as stated): no file version (mtime) is uploaded successfully twice.
C2_AtMostOneUploadPerMtime ==
    [][~(/\ last'.op = "fire"
         /\ last'.res = "ok1"
         /\ last'.ver = remote[last'.key])]_vars

\* C2 (amended): a file version is uploaded successfully a second time only
\* if it is newer than the key's recorded upload_at (the file was rewritten
\* after that upload began) or more than expire_after has passed since the
\* key's latest Ok upload; every event that sees an mtime strictly newer than
\* the recorded upload_at, or finds no record, leaves the key pending with an
\* entry in the delay queue; and the upload of an entry starts at or after
\* every mtime seen so far and reads a version at least that new.
C2_ReuploadOnlyWhenNewerOrExpired ==
    [][/\ (/\ last'.op = "fire"
           /\ last'.res = "ok1"
           /\ last'.ver = remote[last'.key])
          => \/ lastOk[last'.key].at < last'.ver
             \/ now > lastOk[last'.key].at + cfg.expire_after
       /\ \A k \in Keys :
            (/\ SinkEvent(GoodEvent(k), TRUE)
             /\ ~RecordCovers(ck, k, mtime[k.filename]))
            => /\ k \in pending'
               /\ \E i \in DOMAIN dq' : dq'[i].key = k
               /\ last'.status = IF k \in pending THEN "Delivered" ELSE "none"
       /\ last'.op = "fire"
          => /\ now >= mtime[last'.key.filename]
             /\ last'.ver >= mtime[last'.key.filename]]_vars

\* An event saw an mtime newer than the recorded upload_at and was queued.
C2_Witness ==
    /\ last.op = "event"
    /\ last.status = "none"
    /\ last.key \in DOMAIN ck.view.upload_times
    /\ last.ver > ck.view.upload_times[last.key]
    /\ last.key \in pending

\* C3: when the uploader returns Err for a delay-queue entry, the finalizer
\* is Rejected, the key leaves pending_uploads, its checkpoint record is
\* neither created nor updated, and no record covers the file's mtime, so
\* that the next event for the key is queued again.
C3_FailedUploadIsRetried ==
    [][/\ (last'.op = "fire" /\ last'.res = "err")
          => /\ last'.status = "Rejected"
             /\ last'.key \notin pending'
             /\ RecordOf(ck', last'.key) \in {RecordOf(ck, last'.key), <<>>}
             /\ ~contains(ck', last'.key, mtime'[last'.key.filename])
             /\ remote' = remote
       /\ \A k \in Keys :
            (/\ last.op = "fire" /\ last.res = "err" /\ last.key = k
             /\ SinkEvent(GoodEvent(k), TRUE))
            => /\ last'.status = "none"
               /\ k \in pending'
               /\ Len(dq') = Len(dq) + 1]_vars

\* An upload failed for a key that has an older checkpoint record.
C3_Witness ==
    /\ last.op = "fire"
    /\ last.res = "err"
    /\ last.status = "Rejected"
    /\ last.key \in DOMAIN ck.view.upload_times

\* C6 (as stated): an event for a non-pending key whose record's expire_at
\* has passed is queued for upload and not finalized Delivered, whether or
\* not write_checkpoints has run since.
C6_ExpiredRecordDoesNotSuppress ==
    [][\A k \in Keys :
        (/\ SinkEvent(GoodEvent(k), TRUE)
         /\ k \notin pending
         /\ k \in DOMAIN ck.view.expire_times
         /\ ck.view.expire_times[k] < now)
        => /\ k \in pending'
           /\ last'.status # "Delivered"]_vars

\* C7: an event for a key that is pending, or whose record's upload_at is
\* >= the file's mtime, is finalized Delivered and changes neither the delay
\* queue, pending_uploads, the checkpointer and its files, nor the store.
C7_SuppressedEventChangesNothing ==
    [][\A k \in Keys :
        (/\ SinkEvent(GoodEvent(k), TRUE)
         /\ k \in pending \/ RecordCovers(ck, k, mtime[k.filename]))
        => /\ last'.status = "Delivered"
           /\ UNCHANGED <<dq, pending, ck, disk, remote>>]_vars

\* An event for a pending key was Delivered while the entry stays queued.
C7_Witness ==
    /\ last.op = "event"
    /\ last.status = "Delivered"
    /\ last.key \in pending
    /\ \E i \in DOMAIN dq : dq[i].key = last.key

\* No UploadKey can be built from the event.
Malformed(event) ==
    \/ ~event.is_log
    \/ event.message.kind # "bytes"
    \/ event.key.kind # "bytes"

\* C8: an event that is not a log event, or lacks a byte-string message or
\* key field, or whose file cannot be stat'ed, is finalized Rejected, leaves
\* the delay queue, pending_uploads, the checkpointer and the store as they
\* are, and the loop keeps running.
C8_BadEventRejected ==
    [][\A event \in EventShapes, statOk \in BOOLEAN :
        (/\ SinkEvent(event, statOk)
         /\ Malformed(event) \/ ~statOk)
        => /\ last'.status = "Rejected"
           /\ UNCHANGED <<dq, pending, ck, disk, remote>>
           /\ sink_pc' = "run"]_vars

\* An event for a well-formed key was Rejected because stat failed, with
\* uploads of other events still queued.
C8_Witness ==
    /\ last.op = "event"
    /\ last.status = "Rejected"
    /\ last.key \in Keys
    /\ dq # <<>>
    /\ sink_pc = "run"

\* The keys that have an entry in the delay queue.
QueuedKeys == {dq[i].key : i \in DOMAIN dq}

\* C33: every event the sink takes from its input has its finalizers set to
\* Delivered or Rejected by the sink; the entries waiting in the delay queue
\* when the input ends are uploaded or finalized before run returns, so
\* that none is left once run has returned.
C33_NoEntryLeftAtReturn ==
    sink_pc = "returned" => dq = <<>>

\* run has returned with an entry in the delay queue whose deadline had
\* not come.
C33_Witness ==
    /\ sink_pc = "returned"
    /\ Len(dq) = 1
    /\ dq[1].deadline > now

\* C34: an event is finalized Delivered only when the file version it
\* announced is uploaded: a checkpoint of its key with upload_at >= the
\* mtime observed exists, or an upload of the key started after the event
\* came has returned Ok; never while the upload that could cover it is
\* pending.
C34_DeliveredOnlyWhenUploaded ==
    last.status = "Delivered" =>
        \/ last.op = "fire" /\ last.res \in {"ok0", "ok1"}
        \/ last.op = "event" /\ RecordCovers(ck, last.key, last.ver)

\* An event was finalized Delivered while its key was pending in the delay
\* queue and no checkpoint covered the mtime it saw.
C34_Witness ==
    /\ last.op = "event"
    /\ last.status = "Delivered"
    /\ last.key \in pending
    /\ ~RecordCovers(ck, last.key, last.ver)

\* C35: between the iterations of the loop pending_uploads is the set of
\* the keys with an entry in the delay queue, and no key has two entries.
C35_PendingIsTheQueuedKeys ==
    /\ pending = QueuedKeys
    /\ \A i, j \in DOMAIN dq : dq[i].key = dq[j].key => i = j

\* Two keys are queued and pending, and an event of one of them has just
\* been finalized without a second entry.
C35_Witness ==
    /\ Len(dq) = 2
    /\ Cardinality(pending) = 2
    /\ last.op = "event"
    /\ last.status = "Delivered"
    /\ last.key \in pending

\* ------------------------------------------- the Checkpointer and its files
\* The Checkpointer of one data directory through updates, writes that end
\* at any of their io::Error returns, crashes inside write_checkpoints, and
\* restarts (Checkpointer::new followed by read_checkpoints).
\*
\* hist.op: the latest operation other than the passing of time.  hist.lives:
\* the number of restarts so far.  hist.clean: no write_checkpoints has failed so far.
\* hist.t: per key the upload time of its latest update (NoFile: never
\* updated).  hist.point, hist.prev, hist.new: for a
\* crash inside write_checkpoints, where it struck, the state of
\* checkpoints.json before the call and the state the call was writing.
NeverUpdated == [k \in Keys |-> NoFile]

MkHist(op, lives, clean, t, point, prev, new) ==
    [op |-> op, lives |-> lives, clean |-> clean, t |-> t,
     point |-> point, prev |-> prev, new |-> new]

\* The state held by a file that parses ({} for any other file).
FileState(file) == IF file.exists /\ file.full THEN SeqRange(file.checkpoints) ELSE {}

CkInit ==
    /\ now = 0
    /\ disk = EmptyDisk
    /\ ck = read_checkpoints(NewCheckpointer, EmptyDisk, TRUE).ck
    /\ proc = "up"
    /\ hist = MkHist("init", 0, TRUE, NeverUpdated, "none", {}, {})
    /\ cfg \in [expire_after : 0..MaxExpire, delay_upload : {0}]
    /\ mtime = Unused
    /\ remote = Unused
    /\ dq = Unused
    /\ pending = Unused
    /\ sink_pc = Unused
    /\ last = Unused
    /\ lastOk = Unused
    /\ up = Unused
    /\ mp = Unused
    /\ srv = Unused
    /\ ExtUnused

ckIdle == <<mtime, remote, cfg, dq, pending, sink_pc, last, lastOk, up, mp, srv, extVars>>

\* The update history is kept for the first process while no write failed.
Tracked(h, t) ==
    IF h.lives = 0 /\ h.clean THEN [h EXCEPT !.t = t]
    ELSE [h EXCEPT !.t = NeverUpdated]

CkTick ==
    /\ now < MaxCkTime
    /\ now' = now + 1
    /\ UNCHANGED <<ck, disk, proc, hist>>
    /\ UNCHANGED ckIdle

\* checkpointer.update(key, upload_time, expire_after) with the configured
\* expire_after, the upload time having been captured up to MaxUploadDur
\* ticks before.
CkUpdate(key, upload_time) ==
    /\ proc = "up"
    /\ upload_time >= 0
    /\ \A k \in DOMAIN ck.view.upload_times : ck.view.upload_times[k] <= upload_time
    /\ ck' = update(ck, key, upload_time, cfg.expire_after)
    /\ hist' = [Tracked(hist, [hist.t EXCEPT ![key] = upload_time])
                   EXCEPT !.op = "update"]
    /\ UNCHANGED <<now, disk, proc>>
    /\ UNCHANGED ckIdle

\* checkpointer.write_checkpoints() running to its return.
CkWrite(outcome) ==
    /\ proc = "up"
    /\ LET w == write_checkpoints(ck, disk, now, outcome)
       IN /\ ck' = w.ck
          /\ disk' = w.disk
          /\ hist' = [Tracked([hist EXCEPT !.clean = hist.clean /\ w.ok], hist.t)
                         EXCEPT !.op = IF w.ok THEN "write_ok" ELSE "write_err"]
    /\ UNCHANGED <<now, proc>>
    /\ UNCHANGED ckIdle

\* Where the process can die inside a write_checkpoints that writes:
\* after File::create, during the write, after sync_all, after the rename.
CrashPoints == {"created", "writing", "synced", "renamed"}

\* The io::Error return that leaves the files as a crash at the point does.
CrashOutcome(point) ==
    IF point \in {"created", "writing"} THEN "write_err"
    ELSE IF point = "synced" THEN "rename_err"
    ELSE "ok"

\* The process dies inside write_checkpoints, at point.
CkCrashInWrite(point) ==
    /\ proc = "up"
    /\ hist.lives < MaxRestarts
    /\ LET view == remove_expired(ck.view, now)
           state == get_state(view, now)
           w == write_checkpoints(ck, disk, now, CrashOutcome(point))
       IN /\ ck.last # state
          /\ disk' = w.disk
          /\ hist' = MkHist("crash", hist.lives, hist.clean, NeverUpdated,
                            point, FileState(disk.stable), state)
    /\ ck' = NewCheckpointer
    /\ proc' = "down"
    /\ UNCHANGED now
    /\ UNCHANGED ckIdle

\* The process dies outside write_checkpoints.
CkCrash ==
    /\ proc = "up"
    /\ hist.lives < MaxRestarts
    /\ ck' = NewCheckpointer
    /\ proc' = "down"
    /\ hist' = MkHist("crash", hist.lives, hist.clean, NeverUpdated,
                      "none", {}, {})
    /\ UNCHANGED <<now, disk>>
    /\ UNCHANGED ckIdle

\* A new process: Checkpointer::new(data_dir) and read_checkpoints().
CkRestart(renameOk) ==
    /\ proc = "down"
    /\ LET r == read_checkpoints(NewCheckpointer, disk, renameOk)
       IN /\ ck' = r.ck
          /\ disk' = r.disk
    /\ proc' = "up"
    /\ hist' = [hist EXCEPT !.op = "restart", !.lives = hist.lives + 1]
    /\ UNCHANGED now
    /\ UNCHANGED ckIdle

NextCheckpointer ==
    \/ CkTick
    \/ \E key \in Keys, upload_time \in (now - MaxUploadDur)..now :
          CkUpdate(key, upload_time)
    \/ \E outcome \in WriteOutcomes : CkWrite(outcome)
    \/ \E point \in CrashPoints : CkCrashInWrite(point)
    \/ CkCrash
    \/ \E renameOk \in BOOLEAN : CkRestart(renameOk)

SpecCheckpointer == CkInit /\ [][NextCheckpointer]_vars

\* --------------------------------------------- properties of the Checkpointer
\* The file is a complete JSON document of State::V1.
Parses(file) == file.exists /\ file.full /\ file.version = "1"

C5_CrashLeavesParseableFile ==
    /\ (hist.op = "restart" /\ hist.point # "none")
       => ck.last \in {hist.prev, hist.new}
    /\ (hist.op = "crash" /\ hist.point # "none")
       => Parses(disk.tmp) \/ Parses(disk.stable)

\* C5 (amended): a restart after a crash inside write_checkpoints (after
\* File::create, during the write, after sync_all or after the rename) loads
\* the complete state of checkpoints.json as it was before the call, or the
\* complete state the call was writing, into both the view and last; and
\* once checkpoints.json exists, at least one of the two files parses in
\* every state.
C5_CrashLoadsPreviousOrNew ==
    /\ (hist.op = "restart" /\ hist.point # "none")
       => /\ ck.last \in {hist.prev, hist.new}
          /\ get_state(ck.view, now) = ck.last
    /\ disk.stable.exists => Parses(disk.tmp) \/ Parses(disk.stable)

\* A restart after a crash during the write, over an earlier snapshot: the
\* earlier snapshot is what was loaded.
C5_Witness ==
    /\ hist.op = "restart"
    /\ hist.point = "writing"
    /\ hist.prev # {}
    /\ hist.new # hist.prev
    /\ ck.last = hist.prev

\* C36: whenever write_checkpoints has returned Ok, with or without writing
\* the file, a fresh process that calls read_checkpoints on the files loads
\* exactly the pruned state held in memory, whatever updates, expirations
\* and failed writes came before.
C36_OkWriteIsWhatAFreshProcessLoads ==
    (proc = "up" /\ hist.op = "write_ok") =>
        \A renameOk \in BOOLEAN :
            LET fresh == read_checkpoints(NewCheckpointer, disk, renameOk).ck
            IN  /\ fresh.view = ck.view
                /\ fresh.last = get_state(ck.view, now)

\* write_checkpoints returned Ok without writing, the view being empty
\* again as at the last persisted state, while checkpoints.new.json, left by
\* a write that failed at the rename, holds a checkpoint.
C36_Witness ==
    /\ proc = "up"
    /\ hist.op = "write_ok"
    /\ hist.lives = 0
    /\ ck.view = DefaultView
    /\ ck.last = {}
    /\ ~disk.stable.exists
    /\ Parses(disk.tmp)
    /\ disk.tmp.checkpoints # <<>>

\* C32: after any sequence of new, read_checkpoints, update and
\* write_checkpoints, failed writes included, upload_times and expire_times
\* have the same keys, and every key written by update has expire_at =
\* upload_at + expire_after.
C32_MapsHaveTheSameKeys ==
    proc = "up" =>
        /\ DOMAIN ck.view.upload_times = DOMAIN ck.view.expire_times
        /\ \A k \in DOMAIN ck.view.expire_times :
              ck.view.expire_times[k] = ck.view.upload_times[k] + cfg.expire_after
        /\ \A k \in Keys :
              (hist.t[k] # NoFile /\ k \in DOMAIN ck.view.upload_times) =>
                 ck.view.upload_times[k] = hist.t[k]

\* A write_checkpoints that failed has pruned an expired key and left
\* another one in both maps.
C32_Witness ==
    /\ proc = "up"
    /\ hist.op = "write_err"
    /\ Cardinality(DOMAIN ck.view.upload_times) = 1
    /\ DOMAIN ck.view.expire_times = DOMAIN ck.view.upload_times
    /\ \E k \in Keys : k \notin DOMAIN ck.view.upload_times /\ k \in {c.upload_key : c \in ck.last}

\* ------------------------------------------------- one call of upload()
\* The replies the fingerprint request can get.  GCS sends the hashes as
\* separate x-goog-hash headers or as one header "crc32c=..,md5=..".
S3Resps ==
    {FailedResp} \cup {MkResp(TRUE, e, <<>>, FALSE, NoFp) : e \in Fingerprints \cup {NoFp}}

HeaderValues ==
    {HeaderValue(FALSE, <<>>), HeaderValue(TRUE, <<HashToken("crc32c", 1)>>)}
        \cup {HeaderValue(TRUE, <<HashToken("md5", v)>>) : v \in Fingerprints}
        \cup {HeaderValue(TRUE, <<HashToken("crc32c", 1), HashToken("md5", v)>>) :
                v \in Fingerprints}

GcsResps ==
    {FailedResp, MkResp(TRUE, NoFp, <<>>, FALSE, NoFp)}
        \cup {MkResp(TRUE, NoFp, <<h>>, FALSE, NoFp) : h \in HeaderValues}
        \cup {MkResp(TRUE, NoFp, <<h1, h2>>, FALSE, NoFp) : h1, h2 \in HeaderValues}

AzureResps ==
    {FailedResp, MkResp(TRUE, NoFp, <<>>, FALSE, NoFp)}
        \cup {MkResp(TRUE, NoFp, <<>>, TRUE, t) : t \in Fingerprints \cup {NoFp}}

Resps(backend) ==
    IF backend = "s3" THEN S3Resps
    ELSE IF backend = "gcs" THEN GcsResps
    ELSE AzureResps

NoResult == [ok |-> FALSE, count |-> 0, events_byte_size |-> 0, wrote |-> FALSE]

\* An uploader about to run upload(upload_key): the store's reply to the
\* fingerprint request, the fingerprint of the local file (NoFp: it cannot
\* be read), whether do_upload will succeed, and the size of the file.
UploadInit ==
    /\ \E backend \in Backends :
         up \in [pc : {"call"}, backend : {backend}, resp : Resps(backend),
                 local : Fingerprints \cup {NoFp}, doOk : BOOLEAN,
                 size : 0..MaxFileSize, result : {NoResult}]
    /\ now = Unused
    /\ mtime = Unused
    /\ remote = Unused
    /\ cfg = Unused
    /\ ck = Unused
    /\ disk = Unused
    /\ dq = Unused
    /\ pending = Unused
    /\ sink_pc = Unused
    /\ last = Unused
    /\ lastOk = Unused
    /\ proc = Unused
    /\ hist = Unused
    /\ mp = Unused
    /\ srv = Unused
    /\ ExtUnused

\* upload(upload_key) runs to its return.
UploadCall ==
    /\ up.pc = "call"
    /\ up' = [up EXCEPT !.pc = "done",
                        !.result = upload(up.backend, up.resp, up.local, up.doOk, up.size)]
    /\ UNCHANGED <<now, mtime, remote, cfg, ck, disk, dq, pending, sink_pc, last,
                   lastOk, proc, hist, mp, srv, extVars>>

NextUpload == UploadCall

SpecUpload == UploadInit /\ [][NextUpload]_vars

\* The fingerprint the store reported: the ETag of a successful HeadObject;
\* the value of the first md5 token of the first x-goog-hash header holding
\* one, no unreadable header coming before it; the o11y_etag tag of the
\* blob.  NoFp if the request failed or reported none.
HasMd5(h) == \E i \in DOMAIN h.tokens : h.tokens[i].name = "md5"

FirstMd5(h) ==
    h.tokens[CHOOSE i \in DOMAIN h.tokens :
                /\ h.tokens[i].name = "md5"
                /\ \A j \in 1..(i - 1) : h.tokens[j].name # "md5"].val

RemoteFingerprint(backend, resp) ==
    IF ~resp.ok THEN NoFp
    ELSE IF backend = "s3" THEN resp.etag
    ELSE IF backend = "azure" THEN (IF resp.has_tags THEN resp.o11y_etag ELSE NoFp)
    ELSE IF \E i \in DOMAIN resp.hashes :
               /\ HasMd5(resp.hashes[i])
               /\ \A j \in 1..i : resp.hashes[j].ascii
    THEN FirstMd5(resp.hashes[CHOOSE i \in DOMAIN resp.hashes :
                                 /\ HasMd5(resp.hashes[i])
                                 /\ \A j \in 1..(i - 1) : ~HasMd5(resp.hashes[j])])
    ELSE NoFp

KeyOwn == <<1>>

KeyOther == <<1, 2>>

IsPrefix(p, s) == Len(p) <= Len(s) /\ SubSeq(s, 1, Len(p)) = p

\* The content of one 8 MiB chunk of the file; NoChunk is the empty chunk a
\* read at the end of the file leaves.
ChunkData == {1, 2}

NoChunk == 0

\* The files of the multipart path: 1..MaxParts non-empty chunks.
MpFiles == UNION {[1..n -> ChunkData] : n \in 1..MaxParts}

\* The ETag S3 reports for an uploaded part: the MD5 of its body.
ServerPartEtag(body) == [md5 |-> body]

\* EtagCalculator::part: the ETag of a chunk as S3 computes it for a part.
part(chunk) == [md5 |-> chunk]

\* An in-progress multipart upload on the server; parts maps the part
\* numbers uploaded so far to their bodies.
MkUpload(id, key, initiated, parts) ==
    [id |-> id, key |-> key, initiated |-> initiated, parts |-> parts]

NoParts == [n \in {} |-> NoChunk]

\* ListMultipartUploads with .prefix(object_key): every in-progress upload
\* whose key starts with the prefix.
list_existing_uploads(uploads, prefix) == {u \in uploads : IsPrefix(prefix, u.key)}

\* The server's check of (key, upload_id) in AbortMultipartUpload, ListParts,
\* UploadPart and CompleteMultipartUpload: NoSuchUpload unless the upload
\* exists; a server that checks the key also requires it to be the upload's.
KnownUpload(server, key, upload_id) ==
    \E u \in server.uploads : u.id = upload_id /\ (server.checks_key => u.key = key)

UploadOf(uploads, upload_id) == CHOOSE u \in uploads : u.id = upload_id

\* uploads.sort_unstable_by_key(initiated); uploads.pop(): an upload with
\* the greatest initiated time.
LatestUploads(uploads) ==
    {u \in uploads : \A v \in uploads : v.initiated <= u.initiated}

RECURSIVE SortedParts(_, _)
\* parts.sort_unstable_by_key(part_number) over the parts one ListParts
\* request returns: the limit lowest part numbers, ascending.
SortedParts(parts, limit) ==
    IF DOMAIN parts = {} \/ limit = 0 THEN <<>>
    ELSE LET n == CHOOSE x \in DOMAIN parts : \A y \in DOMAIN parts : x <= y
         IN <<[part_number |-> n, e_tag |-> ServerPartEtag(parts[n])]>>
                \o SortedParts([x \in (DOMAIN parts) \ {n} |-> parts[x]], limit - 1)

\* The chunk read from the file when part_number is the next part.
ChunkAt(file, part_number) ==
    IF part_number \in DOMAIN file THEN file[part_number] ELSE NoChunk

RECURSIVE verify_and_advance(_, _, _, _)
\* MultipartUploader::verify_and_advance over the sorted parts.
verify_and_advance(parts, file, part_number, completed_parts) ==
    IF parts = <<>>
    THEN [ok |-> TRUE, part_number |-> part_number, completed_parts |-> completed_parts]
    ELSE IF Head(parts).part_number # part_number
    THEN [ok |-> FALSE, part_number |-> part_number, completed_parts |-> completed_parts]
    ELSE IF Head(parts).e_tag # part(ChunkAt(file, part_number))
    THEN [ok |-> FALSE, part_number |-> part_number, completed_parts |-> completed_parts]
    ELSE verify_and_advance(Tail(parts), file, part_number + 1,
                            Append(completed_parts,
                                   [part_number |-> part_number,
                                    e_tag |-> Head(parts).e_tag]))

\* CompleteMultipartUpload accepts a non-empty list of parts in ascending
\* order, each uploaded with the ETag given.
CompleteAccepts(u, completed_parts) ==
    /\ completed_parts # <<>>
    /\ \A i \in DOMAIN completed_parts :
         /\ completed_parts[i].part_number \in DOMAIN u.parts
         /\ completed_parts[i].e_tag = ServerPartEtag(u.parts[completed_parts[i].part_number])
         /\ i > 1 => completed_parts[i - 1].part_number < completed_parts[i].part_number

\* The uploader as multipart_uploader builds it, with the history of its
\* requests: created (CreateMultipartUpload calls), sent (part numbers
\* passed to UploadPart, in order), completed (the upload id and the part
\* numbers of CompleteMultipartUpload), transport (a request failed in
\* transit, or the file could not be reopened), rejected
\* (verify_and_advance returned false).
NewMultipartUploader(file) ==
    [pc |-> "start", file |-> file, upload_id |-> 0, part_number |-> 1,
     completed_parts |-> <<>>, latest |-> 0, to_abort |-> {},
     created |-> 0, sent |-> <<>>, completed |-> <<>>, transport |-> FALSE,
     rejected |-> FALSE]

\* The uploads a bucket may hold when upload() starts: at most two for the
\* own key and one for the other key.
DensePartMaps == UNION {[1..n -> ChunkData] : n \in 0..MaxParts}

FirstUploads ==
    {MkUpload(1, KeyOwn, 1, p) :
       p \in DensePartMaps \cup {[n \in {2} |-> 1], [n \in {1, 3} |-> 1]}}

SecondUploads ==
    {MkUpload(2, KeyOwn, t, p) : t \in {0, 1, 2}, p \in {NoParts, [n \in {1} |-> 1]}}

OtherUploads == {MkUpload(3, KeyOther, t, NoParts) : t \in {0, 3}}

AtMostOne(S) == {{}} \cup {{x} : x \in S}

MpInit ==
    /\ \E a \in AtMostOne(FirstUploads), b \in AtMostOne(SecondUploads),
          c \in AtMostOne(OtherUploads), checks_key \in BOOLEAN :
         srv = [uploads |-> a \cup b \cup c, initial |-> a \cup b \cup c,
                checks_key |-> checks_key, object |-> <<>>]
    /\ \E file \in MpFiles : mp = NewMultipartUploader(file)
    /\ now = Unused
    /\ mtime = Unused
    /\ remote = Unused
    /\ cfg = Unused
    /\ ck = Unused
    /\ disk = Unused
    /\ dq = Unused
    /\ pending = Unused
    /\ sink_pc = Unused
    /\ last = Unused
    /\ lastOk = Unused
    /\ proc = Unused
    /\ hist = Unused
    /\ up = Unused
    /\ ExtUnused

mpIdle == <<now, mtime, remote, cfg, ck, disk, dq, pending, sink_pc, last, lastOk,
            proc, hist, up, extVars>>

\* A request returned Err: upload() returns the error.
Failed(m, inTransit) == [m EXCEPT !.pc = "failed", !.transport = inTransit]

\* initiate_upload: list_existing_uploads, and the choice of the latest.
MpListUploads(ok, pick) ==
    /\ mp.pc = "start"
    /\ LET uploads == list_existing_uploads(srv.uploads, KeyOwn)
       IN IF ~ok THEN mp' = Failed(mp, TRUE)
          ELSE IF uploads = {} THEN mp' = [mp EXCEPT !.pc = "create"]
          ELSE /\ pick \in LatestUploads(uploads)
               /\ mp' = [mp EXCEPT !.latest = pick.id,
                                   !.to_abort = {u.id : u \in uploads} \ {pick.id},
                                   !.pc = IF uploads = {pick} THEN "list_parts"
                                          ELSE "cleanup"]
    /\ UNCHANGED srv
    /\ UNCHANGED mpIdle

\* cleanup_uploads_except_latest: abort_upload of the next older upload.
MpAbortOlder(ok, upload_id) ==
    /\ mp.pc = "cleanup"
    /\ upload_id \in mp.to_abort
    /\ \A other \in mp.to_abort :
         UploadOf(srv.uploads, upload_id).initiated <= UploadOf(srv.uploads, other).initiated
    /\ IF ~ok THEN mp' = Failed(mp, TRUE) /\ UNCHANGED srv
       ELSE IF ~KnownUpload(srv, KeyOwn, upload_id)
       THEN mp' = Failed(mp, FALSE) /\ UNCHANGED srv
       ELSE /\ srv' = [srv EXCEPT !.uploads = {u \in srv.uploads : u.id # upload_id}]
            /\ mp' = [mp EXCEPT !.to_abort = mp.to_abort \ {upload_id},
                                !.pc = IF mp.to_abort = {upload_id} THEN "list_parts"
                                       ELSE "cleanup"]
    /\ UNCHANGED mpIdle

\* initiate_upload: list_parts of the latest upload and verify_and_advance.
MpListParts(ok) ==
    /\ mp.pc = "list_parts"
    /\ IF ~ok THEN mp' = Failed(mp, TRUE)
       ELSE IF ~KnownUpload(srv, KeyOwn, mp.latest) THEN mp' = Failed(mp, FALSE)
       ELSE LET parts == SortedParts(UploadOf(srv.uploads, mp.latest).parts,
                                     MaxListedParts)
                v == verify_and_advance(parts, mp.file, mp.part_number,
                                        mp.completed_parts)
            IN IF v.ok
               THEN mp' = [mp EXCEPT !.upload_id = mp.latest,
                                     !.part_number = v.part_number,
                                     !.completed_parts = v.completed_parts,
                                     !.pc = "upload"]
               ELSE mp' = [mp EXCEPT !.part_number = v.part_number,
                                     !.completed_parts = v.completed_parts,
                                     !.rejected = TRUE,
                                     !.pc = "abort_latest"]
    /\ UNCHANGED srv
    /\ UNCHANGED mpIdle

\* initiate_upload: abort_upload of the upload that could not be resumed.
MpAbortLatest(ok) ==
    /\ mp.pc = "abort_latest"
    /\ IF ~ok THEN mp' = Failed(mp, TRUE) /\ UNCHANGED srv
       ELSE IF ~KnownUpload(srv, KeyOwn, mp.latest)
       THEN mp' = Failed(mp, FALSE) /\ UNCHANGED srv
       ELSE /\ srv' = [srv EXCEPT !.uploads = {u \in srv.uploads : u.id # mp.latest}]
            /\ mp' = [mp EXCEPT !.pc = "create"]
    /\ UNCHANGED mpIdle

reset_keeping_completed_parts(m) == [m EXCEPT !.part_number = 1]

\* initiate_upload: the reset of the fields verify_and_advance has moved;
\* the file is reopened and its first chunk read, which part_number 1
\* stands for.
reset_after_abort(m) == [m EXCEPT !.part_number = 1, !.completed_parts = <<>>]

\* initiate_upload: create_upload, and after an upload that could not be
\* resumed the reset of the uploader; reopened tells whether File::open and
\* the read of the first chunk succeed.
MpCreate(ok, reopened) ==
    /\ mp.pc = "create"
    /\ IF ~ok THEN mp' = Failed(mp, TRUE) /\ UNCHANGED srv
       ELSE LET id == 4
            IN /\ srv' = [srv EXCEPT !.uploads = srv.uploads \cup
                                        {MkUpload(id, KeyOwn, 4, NoParts)}]
               /\ IF ~mp.rejected
                  THEN mp' = [mp EXCEPT !.upload_id = id, !.pc = "upload",
                                        !.created = mp.created + 1]
                  ELSE IF ~reopened
                  THEN mp' = [Failed(mp, TRUE) EXCEPT !.upload_id = id,
                                                       !.created = mp.created + 1]
                  ELSE mp' = [reset_after_abort(mp) EXCEPT
                                !.upload_id = id, !.pc = "upload",
                                !.created = mp.created + 1]
    /\ UNCHANGED mpIdle

\* One turn of the loop of upload(): upload_part and the read of the next
\* chunk.
MpUploadPart(ok) ==
    /\ mp.pc = "upload"
    /\ ChunkAt(mp.file, mp.part_number) # NoChunk
    /\ IF mp.part_number > S3_MULTIPART_UPLOAD_MAX_CHUNKS
       THEN mp' = Failed(mp, FALSE) /\ UNCHANGED srv
       ELSE IF ~ok THEN mp' = Failed(mp, TRUE) /\ UNCHANGED srv
       ELSE IF ~KnownUpload(srv, KeyOwn, mp.upload_id)
       THEN mp' = Failed(mp, FALSE) /\ UNCHANGED srv
       ELSE LET u == UploadOf(srv.uploads, mp.upload_id)
                body == ChunkAt(mp.file, mp.part_number)
                stored == [n \in (DOMAIN u.parts) \cup {mp.part_number} |->
                             IF n = mp.part_number THEN body ELSE u.parts[n]]
            IN /\ srv' = [srv EXCEPT !.uploads =
                            (srv.uploads \ {u}) \cup {[u EXCEPT !.parts = stored]}]
               /\ mp' = [mp EXCEPT !.completed_parts =
                                      Append(mp.completed_parts,
                                             [part_number |-> mp.part_number,
                                              e_tag |-> ServerPartEtag(body)]),
                                   !.sent = Append(mp.sent, mp.part_number),
                                   !.part_number = mp.part_number + 1]
    /\ UNCHANGED mpIdle

\* The loop of upload() has ended: complete_upload.
MpComplete(ok) ==
    /\ mp.pc = "upload"
    /\ ChunkAt(mp.file, mp.part_number) = NoChunk
    /\ IF ~ok THEN mp' = Failed(mp, TRUE) /\ UNCHANGED srv
       ELSE IF ~KnownUpload(srv, KeyOwn, mp.upload_id)
       THEN mp' = Failed(mp, FALSE) /\ UNCHANGED srv
       ELSE LET u == UploadOf(srv.uploads, mp.upload_id)
            IN IF ~CompleteAccepts(u, mp.completed_parts)
               THEN mp' = Failed(mp, FALSE) /\ UNCHANGED srv
               ELSE /\ srv' = [srv EXCEPT
                                 !.uploads = srv.uploads \ {u},
                                 !.object = [i \in DOMAIN mp.completed_parts |->
                                               u.parts[mp.completed_parts[i].part_number]]]
                    /\ mp' = [mp EXCEPT
                                !.pc = "done",
                                !.completed = <<mp.upload_id,
                                                [i \in DOMAIN mp.completed_parts |->
                                                   mp.completed_parts[i].part_number]>>,
                                !.completed_parts = <<>>]
    /\ UNCHANGED mpIdle

NextMultipart ==
    \/ \E ok \in BOOLEAN, pick \in srv.uploads : MpListUploads(ok, pick)
    \/ \E ok \in BOOLEAN, upload_id \in mp.to_abort : MpAbortOlder(ok, upload_id)
    \/ \E ok \in BOOLEAN : MpListParts(ok)
    \/ \E ok \in BOOLEAN : MpAbortLatest(ok)
    \/ \E ok, reopened \in BOOLEAN : MpCreate(ok, reopened)
    \/ \E ok \in BOOLEAN : MpUploadPart(ok)
    \/ \E ok \in BOOLEAN : MpComplete(ok)

SpecMultipart == MpInit /\ [][NextMultipart]_vars

\* ---------------------------------------------- claims on multipart recovery
\* The uploads the bucket held for the own key when upload() started.
OwnInitial == {u \in srv.initial : u.key = KeyOwn}

\* u is the most recently initiated upload for the own key, and it holds
\* parts 1..k (1 <= k <= n) whose ETags are those of chunks 1..k of the file.
Recoverable(u) ==
    /\ u \in OwnInitial
    /\ \A v \in OwnInitial \ {u} : v.initiated < u.initiated
    /\ \E k \in 1..Len(mp.file) :
         /\ DOMAIN u.parts = 1..k
         /\ \A i \in 1..k : ServerPartEtag(u.parts[i]) = part(mp.file[i])

Returned == mp.pc \in {"done", "failed"} /\ ~mp.transport

\* C10: when the most recently initiated in-progress upload for the key holds
\* parts 1..k whose ETags equal those of chunks 1..k of the file, and no request
\* fails in transit, upload() creates no multipart upload, sends exactly parts
\* k+1..n in order, and completes that same upload with parts 1..n ascending.
C10_RecoveryResumesLatest ==
    \A u \in srv.initial :
        (Recoverable(u) /\ Returned) =>
            /\ mp.pc = "done"
            /\ mp.created = 0
            /\ mp.sent = [i \in 1..(Len(mp.file) - Len(u.parts)) |-> Len(u.parts) + i]
            /\ mp.completed = <<u.id, [i \in 1..Len(mp.file) |-> i]>>

\* The recoverable upload has been aborted as an older one: it is gone from
\* the bucket, and no CompleteMultipartUpload was sent.
C10_Witness ==
    \E u \in srv.initial :
        /\ Recoverable(u)
        /\ ~mp.transport
        /\ mp.completed = <<>>
        /\ \A v \in srv.uploads : v.id # u.id

\* C38: upload() for the own key aborts, lists the parts of, resumes and
\* completes only multipart uploads of exactly that key: an upload in
\* progress for another key that has the own key as a prefix is never
\* chosen as the upload to recover, never put among those to abort, and
\* stays in the bucket.
C38_OnlyUploadsOfTheOwnKey ==
    \A u \in srv.initial :
        u.key # KeyOwn =>
            /\ mp.latest # u.id
            /\ u.id \notin mp.to_abort
            /\ mp.upload_id # u.id
            /\ u \in srv.uploads

\* The upload of the other key was chosen as the latest, and on a server
\* that checks the key of the request ListParts failed: upload() returned Err.
C38_Witness ==
    /\ srv.checks_key
    /\ \E u \in srv.initial : u.key = KeyOther /\ mp.latest = u.id
    /\ mp.pc = "failed"
    /\ ~mp.transport
    /\ mp.created = 0

\* The latest upload as the bucket held it when upload() started.
LatestInitial == CHOOSE u \in srv.initial : u.id = mp.latest

\* C28: when verify_and_advance rejects the latest in-progress upload, that
\* upload is aborted and a fresh one created; the parts are then sent from the
\* start of the file with part number 1, and CompleteMultipartUpload names
\* the new upload and lists the parts sent in this attempt only, parts 1..n
\* of the file, none of the aborted upload.
C28_RejectedRecoveryStartsOver ==
    mp.rejected =>
        /\ mp.pc \in {"create", "upload", "done"} =>
              \A u \in srv.uploads : u.id # mp.latest
        /\ mp.pc \in {"upload", "done"} =>
              /\ mp.created = 1
              /\ mp.upload_id # mp.latest
              /\ \A u \in srv.initial : u.id # mp.upload_id
              /\ mp.sent = [i \in 1..Len(mp.sent) |-> i]
        /\ mp.pc = "upload" =>
              /\ mp.part_number = Len(mp.sent) + 1
              /\ mp.completed_parts =
                   [i \in 1..Len(mp.sent) |->
                      [part_number |-> i, e_tag |-> part(mp.file[i])]]
        /\ mp.pc = "done" =>
              /\ mp.completed = <<mp.upload_id, [i \in 1..Len(mp.file) |-> i]>>
              /\ mp.sent = [i \in 1..Len(mp.file) |-> i]
              /\ srv.object = mp.file
        /\ Returned => mp.pc = "done"

\* The latest upload held part 1 with the ETag of the file's first chunk
\* and a part 2 of another ETag; it is gone, and the new upload was
\* completed with the parts of this attempt.
C28_Witness ==
    /\ mp.rejected
    /\ mp.pc = "done"
    /\ Len(mp.file) >= 2
    /\ DOMAIN LatestInitial.parts = {1, 2}
    /\ ServerPartEtag(LatestInitial.parts[1]) = part(mp.file[1])
    /\ ServerPartEtag(LatestInitial.parts[2]) # part(mp.file[2])
    /\ mp.completed = <<4, [i \in 1..Len(mp.file) |-> i]>>
    /\ mp.sent = [i \in 1..Len(mp.file) |-> i]

\* ------------------------------------------- the S3 ETag calculator
\* A local file of fulls chunks of MaxChunkBytes bytes followed by tail
\* bytes (tail < MaxChunkBytes); seed tells files of one size apart.
MkFile(fulls, tail, seed) == [fulls |-> fulls, tail |-> tail, seed |-> seed]

EtagFiles ==
    {MkFile(fulls, tail, seed) : fulls \in 0..(MaxEtagChunks + 1),
                                 tail \in 0..(MaxChunkBytes - 1), seed \in ChunkData}

FileSize(f) == f.fulls * MaxChunkBytes + f.tail

\* Full chunks plus the final partial chunk, if any.
NumChunks(f) == f.fulls + (IF f.tail > 0 THEN 1 ELSE 0)

\* (&mut file).take(chunk_size).read_to_end(&mut chunk): the size of the
\* i-th read, and the bytes it leaves in chunk.
ReadSize(f, i) ==
    IF i <= f.fulls THEN MaxChunkBytes
    ELSE IF i = f.fulls + 1 THEN f.tail
    ELSE 0

ChunkBytes(f, i) == IF ReadSize(f, i) = 0 THEN <<>> ELSE <<f.seed, i, ReadSize(f, i)>>

\* md5::Md5::digest
Md5(bytes) == [md5 |-> bytes]

\* The two forms of an ETag: "<hex>" and "<hex>-<n>".
PlainEtag(bytes) == [form |-> "plain", hex |-> bytes, n |-> 0]

MultipartEtag(digest, n) == [form |-> "multipart", hex |-> <<digest>>, n |-> n]

\* EtagCalculator::new
NewEtagCalculator(chunk_size, max_chunks) ==
    [concat_md5 |-> <<>>, multipart_upload_chunk_size |-> chunk_size,
     multipart_upload_max_chunks |-> max_chunks]

\* The reads of a call: failAt = 0 is File::open failing, failAt = i > 0 the
\* i-th read failing, NoFailure neither.
NoFailure == -1

FileErr(calc, too_large) ==
    [ok |-> FALSE, too_large |-> too_large, val |-> NoFp, calc |-> calc]

\* EtagCalculator::file after its loop.
file_finish(calc, chunk_count, total_size) ==
    LET concat_md5 == IF calc.concat_md5 = <<>> THEN <<Md5(<<>>)>> ELSE calc.concat_md5
        res == IF total_size >= calc.multipart_upload_chunk_size
               THEN MultipartEtag(Md5(concat_md5), chunk_count)
               ELSE PlainEtag(concat_md5)
    IN [ok |-> TRUE, too_large |-> FALSE, val |-> res,
        calc |-> [calc EXCEPT !.concat_md5 = <<>>]]

RECURSIVE file_loop(_, _, _, _, _, _)
\* The loop of EtagCalculator::file, from its i-th read on.
file_loop(calc, f, i, chunk_count, total_size, failAt) ==
    IF i = failAt THEN FileErr(calc, FALSE)
    ELSE IF ReadSize(f, i) = 0
    THEN file_finish(calc, chunk_count, total_size)
    ELSE LET read == [calc EXCEPT !.concat_md5 = Append(calc.concat_md5, Md5(ChunkBytes(f, i)))]
         IN IF ReadSize(f, i) < calc.multipart_upload_chunk_size
            THEN file_finish(read, chunk_count + 1, total_size + ReadSize(f, i))
            ELSE IF chunk_count + 1 > calc.multipart_upload_max_chunks
            THEN FileErr(read, TRUE)
            ELSE file_loop(read, f, i + 1, chunk_count + 1,
                           total_size + ReadSize(f, i), failAt)

\* EtagCalculator::file
file(calc, f, failAt) ==
    IF failAt = 0 THEN FileErr(calc, FALSE)
    ELSE file_loop(calc, f, 1, 0, 0, failAt)

put_object_up_to_chunk_size(n, chunk_size) == n <= chunk_size

\* S3Uploader::do_upload: whether the n bytes of the first read go out by
\* put_object.
takes_put_object(n, chunk_size) == n < chunk_size

\* S3Uploader::do_upload with every request succeeding: the path taken,
\* whether abort_all_uploads ran, the parts sent, and the ETag S3 reports
\* for the object (NoFp when upload() stops at part max_chunks + 1).
do_upload(f, chunk_size, max_chunks) ==
    IF takes_put_object(ReadSize(f, 1), chunk_size)
    THEN [path |-> "put_object", aborted |-> TRUE, parts |-> 0, ok |-> TRUE,
          size |-> ReadSize(f, 1),
          object |-> PlainEtag(<<Md5(ChunkBytes(f, 1))>>)]
    ELSE IF NumChunks(f) > max_chunks
    THEN [path |-> "multipart", aborted |-> FALSE, parts |-> max_chunks, ok |-> FALSE,
          size |-> 0, object |-> NoFp]
    ELSE [path |-> "multipart", aborted |-> FALSE, parts |-> NumChunks(f), ok |-> TRUE,
          size |-> FileSize(f),
          object |-> MultipartEtag(Md5([k \in 1..NumChunks(f) |-> Md5(ChunkBytes(f, k))]),
                                   NumChunks(f))]

\* The ETag strings as need_upload compares them: the object's ETag is
\* fingerprint 1, every other string fingerprint 2.
AsFingerprint(e, object_etag) == IF e = object_etag THEN 1 ELSE 2

NoCall == [file |-> MkFile(0, 0, 0), failAt |-> NoFailure, stale |-> FALSE,
           res |-> FileErr(NewEtagCalculator(0, 0), FALSE)]

\* An S3Uploader as S3Uploader::new builds it, before its first upload().
EtagInit ==
    /\ \E max_chunks \in 1..MaxEtagChunks :
         etag = [pc |-> "new",
                 calc |-> NewEtagCalculator(MaxChunkBytes, max_chunks),
                 file |-> MkFile(0, 0, 0), sent |-> do_upload(MkFile(0, 0, 0), 1, 1),
                 need |-> NeedErr, call |-> NoCall, calls |-> 0]
    /\ CoreUnused
    /\ par = Unused
    /\ gcs = Unused
    /\ az = Unused
    /\ sub = Unused
    /\ ctl = Unused

etagIdle == <<coreVars, par, gcs, az, sub, ctl>>

\* The first upload() of a key: HeadObject finds no object, do_upload runs.
EtagDoUpload(f) ==
    /\ etag.pc = "new"
    /\ etag' = [etag EXCEPT
                  !.pc = "uploaded", !.file = f,
                  !.sent = do_upload(f, etag.calc.multipart_upload_chunk_size,
                                     etag.calc.multipart_upload_max_chunks)]
    /\ UNCHANGED etagIdle

\* A later upload() of that key, the file unchanged: need_upload.
EtagNeedUpload(failAt) ==
    /\ etag.pc = "uploaded"
    /\ etag.sent.ok
    /\ LET res == file(etag.calc, etag.file, failAt)
       IN etag' = [etag EXCEPT
                     !.pc = "checked",
                     !.calc = res.calc,
                     !.need = s3_need_upload(
                                MkResp(TRUE, AsFingerprint(etag.sent.object, etag.sent.object),
                                       <<>>, FALSE, NoFp),
                                IF res.ok THEN AsFingerprint(res.val, etag.sent.object)
                                ELSE NoFp),
                     !.call = [file |-> etag.file, failAt |-> failAt,
                               stale |-> etag.calc.concat_md5 # <<>>, res |-> res],
                     !.calls = etag.calls + 1]
    /\ UNCHANGED etagIdle

\* need_upload of another key whose object exists: the calculator runs on
\* that key's file.
EtagOtherKey(g, failAt) ==
    /\ etag.pc \in {"new", "uploaded"}
    /\ etag.calls < MaxEtagCalls
    /\ LET res == file(etag.calc, g, failAt)
       IN etag' = [etag EXCEPT
                     !.calc = res.calc,
                     !.call = [file |-> g, failAt |-> failAt,
                               stale |-> etag.calc.concat_md5 # <<>>, res |-> res],
                     !.calls = etag.calls + 1]
    /\ UNCHANGED etagIdle

FailPoints == {NoFailure} \cup 0..(MaxEtagChunks + 2)

NextEtag ==
    \/ \E f \in EtagFiles : EtagDoUpload(f)
    \/ \E failAt \in FailPoints : EtagNeedUpload(failAt)
    \/ \E g \in EtagFiles, failAt \in FailPoints : EtagOtherKey(g, failAt)

SpecEtag == EtagInit /\ [][NextEtag]_vars

\* ------------------------------------------------ claims on the S3 ETag
\* need_upload has run on the uploaded, unchanged file, and no read of that
\* call failed.
Rechecked == etag.pc = "checked" /\ etag.call.failAt = NoFailure

\* C11: for every size of a successfully uploaded file, EtagCalculator::file
\* returns the ETag S3 reports for the path do_upload took (plain MD5 after
\* PutObject, md5-of-part-md5s with suffix -n after a multipart upload of n
\* parts), so a second upload() of the unchanged file is skipped.
C11_EtagMatchesUploadPath ==
    Rechecked =>
        /\ etag.call.res.ok
        /\ etag.call.res.val = etag.sent.object
        /\ etag.sent.path = "put_object" => etag.call.res.val.form = "plain"
        /\ etag.sent.path = "multipart" =>
             /\ etag.call.res.val.form = "multipart"
             /\ etag.call.res.val.n = etag.sent.parts
        /\ etag.need = NeedOk(FALSE)

\* A file sent by PutObject is uploaded again: an earlier call of file()
\* returned an error after it had read a chunk, and this call returned a
\* string that is not the object's ETag.
C11_Witness ==
    /\ Rechecked
    /\ etag.call.stale
    /\ etag.sent.path = "put_object"
    /\ etag.call.res.ok
    /\ etag.call.res.val # etag.sent.object
    /\ etag.need = NeedOk(TRUE)

\* What a calculator fresh from EtagCalculator::new returns for the file of
\* the last call, the same reads failing.
FreshCall ==
    file(NewEtagCalculator(etag.calc.multipart_upload_chunk_size,
                           etag.calc.multipart_upload_max_chunks),
         etag.call.file, etag.call.failAt)

\* C40: the ETag a call of EtagCalculator::file returns depends on the file
\* alone: after any earlier calls on the same calculator, those that returned
\* an error included, it is the ETag a freshly constructed calculator returns
\* for that file.
C40_EtagIsAFunctionOfTheFile ==
    (etag.calls > 0 /\ etag.call.res.ok) =>
        (FreshCall.ok /\ etag.call.res.val = FreshCall.val)

\* A call on a file sent as a multipart upload followed a call on another
\* key's file that failed after reading a chunk, and returned an ETag that a
\* fresh calculator does not return for that file.
C40_Witness ==
    /\ etag.pc = "checked"
    /\ etag.sent.path = "multipart"
    /\ etag.calls = 2
    /\ etag.call.stale
    /\ etag.call.failAt = NoFailure
    /\ etag.call.res.ok
    /\ FreshCall.ok
    /\ etag.call.res.val # FreshCall.val

Sent == etag.pc \in {"uploaded", "checked"}

\* C12 as stated: a file of at most MaxChunkBytes bytes, that size included,
\* goes out by one PutObject after abort_all_uploads, and only a larger file
\* by the multipart path.
C12_PutObjectUpToChunkSize ==
    Sent =>
        /\ FileSize(etag.file) <= MaxChunkBytes
             => (etag.sent.path = "put_object" /\ etag.sent.aborted)
        /\ FileSize(etag.file) > MaxChunkBytes => etag.sent.path = "multipart"

\* C12: a file of fewer than MaxChunkBytes bytes goes out by one PutObject
\* after abort_all_uploads; a file of MaxChunkBytes bytes or more, that size
\* included, goes out by the multipart path.
C12_PutObjectBelowChunkSize ==
    Sent =>
        /\ FileSize(etag.file) < MaxChunkBytes
             => (etag.sent.path = "put_object" /\ etag.sent.aborted /\ etag.sent.parts = 0)
        /\ FileSize(etag.file) >= MaxChunkBytes
             => (etag.sent.path = "multipart" /\ ~etag.sent.aborted)

\* A file of exactly the chunk size was sent as a multipart upload of one
\* part.
C12_Witness ==
    /\ Sent
    /\ FileSize(etag.file) = MaxChunkBytes
    /\ etag.sent.path = "multipart"
    /\ etag.sent.ok
    /\ etag.sent.parts = 1

\* C13: a call of EtagCalculator::file whose reads all succeed fails with
\* "file is too large" when the file has more than max_chunks chunks (full
\* chunks plus a final partial one), and succeeds otherwise.
C13_TooLargeIffMoreThanMaxChunks ==
    (etag.calls > 0 /\ etag.call.failAt = NoFailure) =>
        /\ NumChunks(etag.call.file) > etag.calc.multipart_upload_max_chunks
             => (~etag.call.res.ok /\ etag.call.res.too_large)
        /\ NumChunks(etag.call.file) <= etag.calc.multipart_upload_max_chunks
             => etag.call.res.ok

\* file() returned an ETag for a file of max_chunks full chunks and a
\* partial one.
C13_Witness ==
    /\ etag.calls > 0
    /\ etag.call.failAt = NoFailure
    /\ etag.call.file.fulls = etag.calc.multipart_upload_max_chunks
    /\ etag.call.file.tail > 0
    /\ etag.call.res.ok
    /\ etag.call.res.val.n = etag.calc.multipart_upload_max_chunks + 1

\* ------------------------------------------- the GCS resumable upload
\* The files of the resumable upload: 0..MaxFulls full chunks and a tail.
GcsFiles ==
    {MkFile(fulls, tail, 1) : fulls \in 0..MaxFulls, tail \in 0..(MaxChunkBytes - 1)}

\* The content-range header: "bytes <begin>-<end>/*", "bytes
\* <begin>-<end>/<total>" and "bytes */<total>".
RangeOpen(begin, end) == [form |-> "begin-end/*", begin |-> begin, end |-> end, total |-> 0]

RangeClosed(begin, end, total) ==
    [form |-> "begin-end/total", begin |-> begin, end |-> end, total |-> total]

RangeTotal(total) == [form |-> "*/total", begin |-> 0, end |-> 0, total |-> total]

\* A PUT on the session URI.
MkPut(final, len, range) == [final |-> final, len |-> len, range |-> range]

\* The reply to a PUT: sent is FALSE when client.call returned an error;
\* the range header is present or not, parsable (text "-<end>" after the
\* first '-') or not.
MkReply(sent, status, present, parsable, end) ==
    [sent |-> sent, status |-> status,
     range |-> [present |-> present, parsable |-> parsable, end |-> end]]

ChunkReplies(range_end) ==
    {MkReply(FALSE, 0, FALSE, FALSE, 0)}
        \cup {MkReply(TRUE, status, FALSE, FALSE, 0) : status \in {200, 308, 503}}
        \cup {MkReply(TRUE, 308, TRUE, FALSE, 0)}
        \cup {MkReply(TRUE, 308, TRUE, TRUE, end) : end \in {range_end - 1, range_end}}

FinalReplies ==
    {MkReply(FALSE, 0, FALSE, FALSE, 0)}
        \cup {MkReply(TRUE, status, FALSE, FALSE, 0) : status \in {200, 201, 308, 503}}

IoOk(n) == [ok |-> TRUE, n |-> n]

IoErr == [ok |-> FALSE, n |-> 0]

\* The content-range of upload_chunk.
chunk_content_range(n, uploaded_bytes) ==
    RangeOpen(uploaded_bytes, uploaded_bytes + n - 1)

upload_chunk_any_range(n, uploaded_bytes, reply) ==
    IF ~reply.sent THEN IoErr
    ELSE IF reply.status # 308 THEN IoErr
    ELSE IF ~reply.range.present THEN IoErr
    ELSE IF ~reply.range.parsable THEN IoErr
    ELSE IoOk(n)

\* GCSUploader::upload_chunk: its result for the reply received.
upload_chunk(n, uploaded_bytes, reply) ==
    IF ~reply.sent THEN IoErr
    ELSE IF reply.status # 308 THEN IoErr
    ELSE IF ~reply.range.present THEN IoErr
    ELSE IF ~reply.range.parsable THEN IoErr
    ELSE IF reply.range.end # uploaded_bytes + n - 1 THEN IoErr
    ELSE IoOk(n)

final_content_range_always_span(n, uploaded_bytes) ==
    RangeClosed(uploaded_bytes, uploaded_bytes + n - 1, uploaded_bytes + n)

\* The content-range of complete_upload.
final_content_range(n, uploaded_bytes) ==
    IF n # 0
    THEN RangeClosed(uploaded_bytes, uploaded_bytes + n - 1, uploaded_bytes + n)
    ELSE RangeTotal(uploaded_bytes)

\* resp.status().is_success()
is_success(status) == status >= 200 /\ status < 300

\* GCSUploader::complete_upload: its result for the reply received.
complete_upload(n, uploaded_bytes, reply) ==
    IF ~reply.sent THEN IoErr
    ELSE IF ~is_success(reply.status) THEN IoErr
    ELSE IoOk(n)

\* The sink's match on uploader.upload: the finalizer status.
upload_status(ok) == IF ok THEN "Delivered" ELSE "Rejected"

\* A delay-queue entry of the GCS sink has fired for a key whose object
\* does not exist: do_upload is about to run.
GcsInit ==
    /\ \E f \in GcsFiles, expire_after \in 0..MaxExpire :
         gcs = [pc |-> "create", session |-> FALSE, file |-> f, read |-> 0,
                chunk_len |-> 0,
                uploaded_bytes |-> 0, puts |-> <<>>, replies |-> <<>>,
                deletes |-> 0, result |-> IoErr, status |-> "none",
                expire_after |-> expire_after, checkpointer |-> NewCheckpointer]
    /\ CoreUnused
    /\ par = Unused
    /\ etag = Unused
    /\ az = Unused
    /\ sub = Unused
    /\ ctl = Unused

gcsIdle == <<coreVars, par, etag, az, sub, ctl>>

GcsReturn(g, result) == [g EXCEPT !.pc = "returned", !.result = result]

\* do_upload: create_resumable_upload; session records that the server
\* opened a resumable session and returned its URI.
GcsCreate(ok) ==
    /\ gcs.pc = "create"
    /\ gcs' = IF ok THEN [gcs EXCEPT !.pc = "open", !.session = TRUE]
              ELSE GcsReturn(gcs, IoErr)
    /\ UNCHANGED gcsIdle

\* resumable_upload: File::open.
GcsOpen(ok) ==
    /\ gcs.pc = "open"
    /\ gcs' = IF ok THEN [gcs EXCEPT !.pc = "read"] ELSE GcsReturn(gcs, IoErr)
    /\ UNCHANGED gcsIdle

\* resumable_upload: the read at the head of the loop, and the test of
\* chunk.len().
GcsRead(ok) ==
    /\ gcs.pc = "read"
    /\ gcs' = IF ~ok THEN GcsReturn(gcs, IoErr)
              ELSE [gcs EXCEPT
                      !.read = gcs.read + 1,
                      !.chunk_len = ReadSize(gcs.file, gcs.read + 1),
                      !.pc = IF ReadSize(gcs.file, gcs.read + 1) < MaxChunkBytes
                             THEN "complete" ELSE "put"]
    /\ UNCHANGED gcsIdle

\* resumable_upload: upload_chunk and the match on its result.
GcsUploadChunk(reply) ==
    /\ gcs.pc = "put"
    /\ LET res == upload_chunk(gcs.chunk_len, gcs.uploaded_bytes, reply)
           sent == [gcs EXCEPT
                      !.puts = Append(gcs.puts,
                                      MkPut(FALSE, gcs.chunk_len,
                                            chunk_content_range(gcs.chunk_len,
                                                                gcs.uploaded_bytes))),
                      !.replies = Append(gcs.replies, reply)]
       IN gcs' = IF res.ok
                 THEN [sent EXCEPT !.uploaded_bytes = gcs.uploaded_bytes + res.n,
                                   !.pc = "read"]
                 ELSE [sent EXCEPT !.pc = "cancel"]
    /\ UNCHANGED gcsIdle

\* resumable_upload: complete_upload and the match on its result.
GcsCompleteUpload(reply) ==
    /\ gcs.pc = "complete"
    /\ LET res == complete_upload(gcs.chunk_len, gcs.uploaded_bytes, reply)
           sent == [gcs EXCEPT
                      !.puts = Append(gcs.puts,
                                      MkPut(TRUE, gcs.chunk_len,
                                            final_content_range(gcs.chunk_len,
                                                                gcs.uploaded_bytes))),
                      !.replies = Append(gcs.replies, reply)]
       IN gcs' = IF res.ok
                 THEN GcsReturn(sent, IoOk(gcs.uploaded_bytes + res.n))
                 ELSE [sent EXCEPT !.pc = "cancel"]
    /\ UNCHANGED gcsIdle

\* cancel_upload: one DELETE on the session URI, its outcome ignored; then
\* the error is returned.
GcsCancelUpload ==
    /\ gcs.pc = "cancel"
    /\ gcs' = GcsReturn([gcs EXCEPT !.deletes = gcs.deletes + 1], IoErr)
    /\ UNCHANGED gcsIdle

\* The sink's match on uploader.upload(&upload_key).
GcsSinkMatch ==
    /\ gcs.pc = "returned"
    /\ gcs' = [gcs EXCEPT
                 !.pc = "done",
                 !.status = upload_status(gcs.result.ok),
                 !.checkpointer = record_upload(gcs.checkpointer, gcs.result.ok,
                                                MkKey(1, 1), 0, gcs.expire_after)]
    /\ UNCHANGED gcsIdle

NextGcs ==
    \/ \E ok \in BOOLEAN : GcsCreate(ok)
    \/ \E ok \in BOOLEAN : GcsOpen(ok)
    \/ \E ok \in BOOLEAN : GcsRead(ok)
    \/ \E reply \in ChunkReplies(gcs.uploaded_bytes + gcs.chunk_len - 1) : GcsUploadChunk(reply)
    \/ \E reply \in FinalReplies : GcsCompleteUpload(reply)
    \/ GcsCancelUpload
    \/ GcsSinkMatch

SpecGcs == GcsInit /\ [][NextGcs]_vars

\* ------------------------------------- claims on the GCS resumable upload
\* A chunk PUT failed as the claim lists it: transport error, status other
\* than 308, range header missing or unparsable, or not ending at the last
\* byte sent; a final PUT failed: transport error or status not 2xx.
PutFailed(put, reply) ==
    IF put.final
    THEN ~reply.sent \/ reply.status < 200 \/ reply.status >= 300
    ELSE \/ ~reply.sent
         \/ reply.status # 308
         \/ ~reply.range.present
         \/ ~reply.range.parsable
         \/ reply.range.end # put.range.end

\* C14: once a chunk PUT or the final PUT has failed, no further PUT is sent;
\* when the upload has returned, exactly one DELETE was issued and the result
\* is the error; and the sink then finalizes the event Rejected and leaves
\* the checkpointer as it was.
C14_FailedPutCancelsUpload ==
    \A i \in DOMAIN gcs.puts :
        PutFailed(gcs.puts[i], gcs.replies[i]) =>
            /\ i = Len(gcs.puts)
            /\ gcs.pc \in {"cancel", "returned", "done"}
            /\ gcs.pc = "cancel" => gcs.deletes = 0
            /\ gcs.pc \in {"returned", "done"} => (gcs.deletes = 1 /\ ~gcs.result.ok)
            /\ gcs.pc = "done" =>
                 (gcs.status = "Rejected" /\ gcs.checkpointer = NewCheckpointer)

\* The second chunk's PUT was acknowledged one byte short; the upload was
\* cancelled and the event rejected.
C14_Witness ==
    /\ gcs.pc = "done"
    /\ Len(gcs.puts) = 2
    /\ gcs.replies[2].status = 308
    /\ gcs.replies[2].range.parsable
    /\ gcs.replies[2].range.end = gcs.puts[2].range.end - 1
    /\ gcs.deletes = 1
    /\ gcs.status = "Rejected"

\* C39: when do_upload has returned an error after the resumable session was
\* created, whatever the cause (the local file could not be opened, a read
\* failed, a PUT failed), a DELETE on the session URI has been issued.
C39_ErrorAfterSessionCancelsIt ==
    (gcs.pc \in {"returned", "done"} /\ gcs.session /\ ~gcs.result.ok) =>
        gcs.deletes >= 1

\* The first chunk was sent and acknowledged, the read of the second failed:
\* do_upload returned the error with the session left open.
C39_Witness ==
    /\ gcs.pc = "returned"
    /\ gcs.session
    /\ ~gcs.result.ok
    /\ gcs.read = 1
    /\ Len(gcs.puts) = 1
    /\ ~PutFailed(gcs.puts[1], gcs.replies[1])
    /\ gcs.deletes = 0

\* C15: the PUTs sent so far carry contiguous ranges from byte 0: every
\* non-final PUT has one full chunk and range begin-end/* with begin the bytes
\* acknowledged before it; a final PUT comes last, declares total = file
\* size, and carries 0 bytes with "bytes */total" exactly when the file size
\* is a multiple of the chunk size; an upload that returned Ok sent exactly one
\* final PUT.
C15_ContiguousRanges ==
    /\ \A i \in DOMAIN gcs.puts :
         LET put == gcs.puts[i]
             before == (i - 1) * MaxChunkBytes
         IN IF ~put.final
            THEN /\ put.len = MaxChunkBytes
                 /\ put.range = RangeOpen(before, before + MaxChunkBytes - 1)
                 /\ i < Len(gcs.puts) => ~PutFailed(put, gcs.replies[i])
            ELSE /\ i = Len(gcs.puts)
                 /\ before + put.len = FileSize(gcs.file)
                 /\ put.len < MaxChunkBytes
                 /\ put.len > 0 =>
                      put.range = RangeClosed(before, FileSize(gcs.file) - 1,
                                              FileSize(gcs.file))
                 /\ put.len = 0 => put.range = RangeTotal(FileSize(gcs.file))
    /\ (gcs.pc \in {"returned", "done"} /\ gcs.result.ok) =>
         /\ gcs.puts # <<>>
         /\ gcs.puts[Len(gcs.puts)].final
         /\ gcs.result.n = FileSize(gcs.file)

\* A file of exactly two chunks was sent: two chunk PUTs and a final PUT of
\* 0 bytes.
C15_Witness ==
    /\ gcs.pc = "done"
    /\ gcs.result.ok
    /\ gcs.file = MkFile(2, 0, 1)
    /\ Len(gcs.puts) = 3
    /\ gcs.puts[3] = MkPut(TRUE, 0, RangeTotal(2 * MaxChunkBytes))
    /\ gcs.status = "Delivered"

\* ------------------------------------------- the Azure block upload
\* The decimal digit of n that stands k places from the right.
Digit(n, k) == IF k > 9 THEN 0 ELSE (n \div (10 ^ k)) % 10

block_id_from_one(block_list) ==
    [i \in 1..BlockIdWidth |-> Digit(Len(block_list) + 1, BlockIdWidth - i)]

\* format!("{:032}", block_list.len()): the digits of the index, padded
\* with zeros on the left to 32 characters.
block_id(block_list) ==
    [i \in 1..BlockIdWidth |-> Digit(Len(block_list), BlockIdWidth - i)]

\* The requests of an upload.
PutBlock(id, size, ok) == [op |-> "put_block", id |-> id, size |-> size, blocks |-> <<>>, ok |-> ok]

PutBlockList(blocks, ok) ==
    [op |-> "put_block_list", id |-> <<>>, size |-> 0, blocks |-> blocks, ok |-> ok]

PutBlockBlob(size, ok) ==
    [op |-> "put_block_blob", id |-> <<>>, size |-> size, blocks |-> <<>>, ok |-> ok]

\* The sizes file.metadata() can report.
AzureSizes == 0..(MaxFulls * MaxChunkBytes + MaxChunkBytes - 1)

\* file_size <= AZURE_BLOB_UPLOAD_CHUNK_SIZE
uploads_directly(file_size) == file_size <= MaxChunkBytes

\* do_upload is about to run on a file of file_size bytes by its metadata,
\* of which readable bytes can be read.
AzInit ==
    /\ \E file_size \in AzureSizes, readable \in AzureSizes :
         /\ readable \in {file_size - 1, file_size}
         /\ az = [pc |-> "open", file_size |-> file_size, readable |-> readable,
                  uploaded_size |-> 0, block_list |-> <<>>, requests |-> <<>>,
                  result |-> IoErr]
    /\ CoreUnused
    /\ par = Unused
    /\ etag = Unused
    /\ gcs = Unused
    /\ sub = Unused
    /\ ctl = Unused

azIdle == <<coreVars, par, etag, gcs, sub, ctl>>

AzReturn(a, result) == [a EXCEPT !.pc = "returned", !.result = result]

\* do_upload: File::open, metadata, and the choice of the path.
AzOpen(ok) ==
    /\ az.pc = "open"
    /\ az' = IF ~ok THEN AzReturn(az, IoErr)
             ELSE IF uploads_directly(az.file_size) THEN [az EXCEPT !.pc = "directly"]
             ELSE [az EXCEPT !.pc = "hash"]
    /\ UNCHANGED azIdle

\* upload_directly: the hash, the read of the file and put_block_blob.
AzUploadDirectly(readOk, putOk) ==
    /\ az.pc = "directly"
    /\ az' = IF ~readOk THEN AzReturn(az, IoErr)
             ELSE AzReturn([az EXCEPT !.requests =
                                 Append(az.requests, PutBlockBlob(az.readable, putOk))],
                           IF putOk THEN IoOk(az.file_size) ELSE IoErr)
    /\ UNCHANGED azIdle

\* upload_in_blocks: calculate_file_md5_hash.
AzHash(ok) ==
    /\ az.pc = "hash"
    /\ az' = IF ok THEN [az EXCEPT !.pc = "loop"] ELSE AzReturn(az, IoErr)
    /\ UNCHANGED azIdle

\* upload_in_blocks: one turn of the loop.  read_size: what file.read
\* returned, at most the buffer and at most what is left of the file.
AzPutBlock(readOk, read_size, putOk) ==
    /\ az.pc = "loop"
    /\ az.uploaded_size < az.file_size
    /\ read_size <= az.readable - az.uploaded_size
    /\ read_size = 0 => az.readable = az.uploaded_size
    /\ az' = IF ~readOk THEN AzReturn(az, IoErr)
             ELSE IF read_size = 0 THEN [az EXCEPT !.pc = "commit"]
             ELSE LET sent == [az EXCEPT !.requests =
                                 Append(az.requests,
                                        PutBlock(block_id(az.block_list), read_size, putOk))]
                  IN IF ~putOk THEN AzReturn(sent, IoErr)
                     ELSE [sent EXCEPT
                             !.block_list = Append(az.block_list, block_id(az.block_list)),
                             !.uploaded_size = az.uploaded_size + read_size,
                             !.pc = IF az.uploaded_size + read_size < az.file_size
                                    THEN "loop" ELSE "commit"]
    /\ UNCHANGED azIdle

\* upload_in_blocks: put_block_list after the loop.
AzPutBlockList(ok) ==
    /\ az.pc = "commit"
    /\ az' = AzReturn([az EXCEPT !.requests =
                          Append(az.requests, PutBlockList(az.block_list, ok))],
                      IF ok THEN IoOk(az.uploaded_size) ELSE IoErr)
    /\ UNCHANGED azIdle

NextAzure ==
    \/ \E ok \in BOOLEAN : AzOpen(ok)
    \/ \E readOk, putOk \in BOOLEAN : AzUploadDirectly(readOk, putOk)
    \/ \E ok \in BOOLEAN : AzHash(ok)
    \/ \E readOk, putOk \in BOOLEAN, read_size \in 0..MaxChunkBytes :
         AzPutBlock(readOk, read_size, putOk)
    \/ \E ok \in BOOLEAN : AzPutBlockList(ok)

SpecAzure == AzInit /\ [][NextAzure]_vars

\* ---------------------------------------- claims on the Azure block upload
RECURSIVE SumSizes(_)
SumSizes(requests) ==
    IF requests = <<>> THEN 0 ELSE Head(requests).size + SumSizes(Tail(requests))

\* The 32-digit id of block index n: zeros, then the digits of n.
PaddedIndex(n) ==
    [i \in 1..32 |-> IF i = 32 THEN n % 10 ELSE IF i = 31 THEN (n \div 10) % 10 ELSE 0]

\* C16: in the block upload of a file larger than one chunk, a PutBlockList
\* is the last request and follows only successful PutBlocks; its list is the
\* ids of the blocks of this call in upload order, the i-th id being the
\* zero-padded 32-digit index i - 1, none repeated, and the block sizes sum to
\* the bytes read; after a failed PutBlock no request follows.
C16_BlockListAfterAllBlocks ==
    ~uploads_directly(az.file_size) =>
        \A i \in DOMAIN az.requests :
            LET r == az.requests[i]
            IN /\ r.op \in {"put_block", "put_block_list"}
               /\ r.op = "put_block" =>
                    /\ r.id = PaddedIndex(i - 1)
                    /\ r.size > 0
                    /\ ~r.ok => i = Len(az.requests)
               /\ r.op = "put_block_list" =>
                    /\ i = Len(az.requests)
                    /\ \A j \in 1..(i - 1) : az.requests[j].op = "put_block" /\ az.requests[j].ok
                    /\ r.blocks = [j \in 1..(i - 1) |-> az.requests[j].id]
                    /\ \A j, k \in 1..(i - 1) : j # k => r.blocks[j] # r.blocks[k]
                    /\ SumSizes(SubSeq(az.requests, 1, i - 1)) = az.uploaded_size
                    /\ az.uploaded_size <= az.readable

\* Three blocks were uploaded and committed.
C16_Witness ==
    /\ az.pc = "returned"
    /\ az.result.ok
    /\ Len(az.requests) = 4
    /\ az.requests[4].op = "put_block_list"
    /\ Len(az.requests[4].blocks) = 3
    /\ az.result.n = az.file_size

\* ------------------------------------ the subscriber's reconnect loop
\* The configured init_retry_delay, in seconds: small delays and delays
\* around MAX_RETRY_DELAY.
InitDelays ==
    0..MaxInitDelay \cup {MAX_RETRY_DELAY - 1 + k : k \in 0..(MaxInitDelay + 1)}

next_retry_delay_uncapped(retry_delay) == retry_delay * 2

\* run_loop, State::RetryDelay: the delay doubled and capped, which is then
\* slept.
next_retry_delay(retry_delay) ==
    IF retry_delay * 2 > MAX_RETRY_DELAY THEN MAX_RETRY_DELAY ELSE retry_delay * 2

\* TopSQLSource::on_connected
on_connected(s) == [s EXCEPT !.retry_delay = s.init_retry_delay]

\* TopSQLSource::new followed by run: the loop is about to call run_once.
\* sleeps: the sleeps taken since the start or the last successful connect;
\* failures: the RetryDelay states met so far.
SubInit ==
    /\ \E d \in InitDelays :
         sub = [pc |-> "connect", init_retry_delay |-> d, retry_delay |-> d,
                sleeps |-> <<>>, failures |-> 0, connects |-> 0]
    /\ CoreUnused
    /\ par = Unused
    /\ etag = Unused
    /\ gcs = Unused
    /\ az = Unused
    /\ ctl = Unused

subIdle == <<coreVars, par, etag, gcs, az, ctl>>

\* run_loop, State::RetryDelay: the delay is doubled, capped and the sleep
\* starts.
RetryDelay(s) ==
    [s EXCEPT !.retry_delay = next_retry_delay(s.retry_delay),
              !.sleeps = Append(s.sleeps, next_retry_delay(s.retry_delay)),
              !.failures = s.failures + 1,
              !.pc = "sleeping"]

\* run_once: build_stream returns the stream and on_connected runs.
SubConnected ==
    /\ sub.pc = "connect"
    /\ sub.connects < MaxConnects
    /\ sub' = [on_connected(sub) EXCEPT !.pc = "streaming", !.sleeps = <<>>,
                                        !.connects = sub.connects + 1]
    /\ UNCHANGED subIdle

\* run_once: build_stream fails (endpoint, connect or subscription).
SubConnectFails ==
    /\ sub.pc = "connect"
    /\ sub.failures < MaxFailures
    /\ sub' = RetryDelay(sub)
    /\ UNCHANGED subIdle

\* run_once: the response stream yields an error.
SubStreamError ==
    /\ sub.pc = "streaming"
    /\ sub.failures < MaxFailures
    /\ sub' = RetryDelay(sub)
    /\ UNCHANGED subIdle

\* run_once: the response stream ends; State::RetryNow.
SubStreamEnds ==
    /\ sub.pc = "streaming"
    /\ sub' = [sub EXCEPT !.pc = "connect"]
    /\ UNCHANGED subIdle

\* time::sleep(self.retry_delay) returns.
SubWakes ==
    /\ sub.pc = "sleeping"
    /\ sub' = [sub EXCEPT !.pc = "connect"]
    /\ UNCHANGED subIdle

\* run: shutdown.done() wins the select.
SubShutdown ==
    /\ sub.pc # "stopped"
    /\ sub' = [sub EXCEPT !.pc = "stopped"]
    /\ UNCHANGED subIdle

NextSubscriber ==
    \/ SubConnected
    \/ SubConnectFails
    \/ SubStreamError
    \/ SubStreamEnds
    \/ SubWakes
    \/ SubShutdown

SpecSubscriber == SubInit /\ [][NextSubscriber]_vars

\* ------------------------------------------- claims on the reconnect loop
Min(a, b) == IF a < b THEN a ELSE b

\* C17: the i-th sleep since the start or the last successful connect lasts
\* d * 2^(i-1) seconds capped at 60, d being the configured initial delay; the
\* first lasts exactly d.
C17_SleepsStartAtInitialDelay ==
    \A i \in DOMAIN sub.sleeps :
        sub.sleeps[i] = Min(sub.init_retry_delay * (2 ^ (i - 1)), MAX_RETRY_DELAY)

\* With an initial delay of 1 s, the first failure after a successful
\* connect was followed by a sleep of 2 s.
C17_Witness ==
    /\ sub.init_retry_delay = 1
    /\ sub.connects = 1
    /\ sub.sleeps = <<2>>

\* C18: every sleep lasts at most 60 s, whatever the configured initial
\* delay, and the sleeps since the start or the last successful connect do not
\* decrease.
C18_SleepsCappedAndMonotone ==
    /\ \A i \in DOMAIN sub.sleeps : sub.sleeps[i] <= MAX_RETRY_DELAY
    /\ \A i \in DOMAIN sub.sleeps : i > 1 => sub.sleeps[i - 1] <= sub.sleeps[i]
    /\ sub.retry_delay <= MAX_RETRY_DELAY \/ sub.sleeps = <<>>

\* With an initial delay above 60 s, the sleeps taken are of 60 s.
C18_Witness ==
    /\ sub.init_retry_delay > MAX_RETRY_DELAY
    /\ sub.sleeps = <<MAX_RETRY_DELAY, MAX_RETRY_DELAY>>

\* ------------------------------------------------ the TopSQL controller
\* The components a topology snapshot can hold: a TiDB and a TiKV, which
\* publish TopSQL, and a PD, for which topsql_address() is None.
Comps == {"tidb", "tikv", "pd"}

CompOrder == <<"tidb", "tikv", "pd">>

has_topsql_address(component) == component # "pd"

\* The shutdown tokens: the root token of pair(), and the token extend()
\* gives the i-th spawned subscriber.
RootToken == 0

NoToken == -1

\* A spawned subscriber task: signalled once its own notifier was shut down.
MkTask(component) == [component |-> component, signalled |-> FALSE, alive |-> TRUE]

\* ShutdownNotifier::shutdown on a token.
shutdown(c, token) ==
    IF token = RootToken THEN [c EXCEPT !.root.signalled = TRUE]
    ELSE [c EXCEPT !.tasks[token].signalled = TRUE]

\* ShutdownSubscriber::done of the subscriber of task i: its own token or
\* an ancestor was shut down.
done(c, i) == c.tasks[i].signalled \/ c.root.signalled

\* ShutdownNotifier::wait_for_exit returns: no subscriber of the token is
\* live.  The root's subscribers are the controller's own handle and those
\* extended from it.
exit_acknowledged(c, token) ==
    IF token = RootToken
    THEN ~c.root.held /\ \A i \in DOMAIN c.tasks : ~c.tasks[i].alive
    ELSE ~c.tasks[token].alive

\* Controller::start_component: TRUE when TopSQLSource::new gave a source.
start_component_ok(component) == has_topsql_address(component)

\* Controller::start_component: the subscriber is spawned with a token
\* extended from the root, and its notifier is kept.
start_component(c, component) ==
    IF ~start_component_ok(component) THEN c
    ELSE [c EXCEPT !.tasks = Append(c.tasks, MkTask(component)),
                   !.running_components[component] = Len(c.tasks) + 1]

newcomers_every_fetched(latest_components, prev_components) == latest_components

leavers_none(latest_components, prev_components) == {}

\* fetch_and_update: the components that joined, and those that left.
newcomers(latest_components, prev_components) == latest_components \ prev_components

leavers(latest_components, prev_components) == prev_components \ latest_components

RECURSIVE start_newcomers(_, _, _)
\* fetch_and_update: the loop over the newcomers.
start_newcomers(c, joined, i) ==
    IF i > Len(CompOrder) THEN c
    ELSE start_newcomers(
           IF CompOrder[i] \in joined /\ start_component_ok(CompOrder[i])
           THEN [start_component(c, CompOrder[i]) EXCEPT
                   !.components = c.components \cup {CompOrder[i]}]
           ELSE c,
           joined, i + 1)

\* Controller::new, and run about to call start_schema_manager_if_needed.
\* The ghost fields: latest, the snapshot of the last fetch_and_update that
\* got one; fetched, how the last get_up_components of run_loop ended.
CtlInit ==
    /\ ctl = [pc |-> "start", components |-> {},
              running_components |-> [c \in Comps |-> NoToken],
              root |-> [signalled |-> FALSE, held |-> TRUE],
              tasks |-> <<>>, schema_manager |-> "none",
              leavers |-> {}, todo |-> {}, component |-> "pd", token |-> NoToken,
              fetches |-> 0, latest |-> {}, fetched |-> "none"]
    /\ CoreUnused
    /\ par = Unused
    /\ etag = Unused
    /\ gcs = Unused
    /\ az = Unused
    /\ sub = Unused

ctlIdle == <<coreVars, par, etag, gcs, az, sub>>

\* Controller::start_schema_manager_if_needed
CtlStartSchemaManager(ok, latest) ==
    /\ ctl.pc = "start"
    /\ ctl' = IF ok /\ "tidb" \in latest
              THEN [ctl EXCEPT !.pc = "fetch", !.schema_manager = "running",
                               !.running_components["tidb"] = RootToken]
              ELSE [ctl EXCEPT !.pc = "fetch"]
    /\ UNCHANGED ctlIdle

\* fetch_and_update: get_up_components and the loop over the newcomers.
CtlFetch(ok, latest) ==
    /\ ctl.pc = "fetch"
    /\ ctl.fetches < MaxFetches
    /\ ctl' = IF ~ok THEN [ctl EXCEPT !.pc = "sleep", !.fetches = ctl.fetches + 1,
                                     !.fetched = "err"]
              ELSE [start_newcomers(ctl, newcomers(latest, ctl.components), 1) EXCEPT
                      !.leavers = leavers(latest, ctl.components),
                      !.pc = IF leavers(latest, ctl.components) = {} THEN "sleep"
                             ELSE "leavers",
                      !.fetches = ctl.fetches + 1,
                      !.latest = latest, !.fetched = "ok"]
    /\ UNCHANGED ctlIdle

\* stop_component up to its await: the notifier is taken out of
\* running_components and shut down.
CtlStopComponent(leaver) ==
    /\ ctl.pc = "leavers"
    /\ leaver \in ctl.leavers
    /\ ctl' = IF ctl.running_components[leaver] = NoToken
              THEN [ctl EXCEPT !.leavers = ctl.leavers \ {leaver},
                               !.pc = IF ctl.leavers = {leaver} THEN "sleep" ELSE "leavers"]
              ELSE [shutdown(ctl, ctl.running_components[leaver]) EXCEPT
                      !.running_components[leaver] = NoToken,
                      !.component = leaver,
                      !.token = ctl.running_components[leaver],
                      !.pc = "wait_exit"]
    /\ UNCHANGED ctlIdle

\* stop_component: wait_for_exit returns, and the leaver is removed from
\* components.
CtlStopped ==
    /\ ctl.pc = "wait_exit"
    /\ exit_acknowledged(ctl, ctl.token)
    /\ ctl' = [ctl EXCEPT !.components = ctl.components \ {ctl.component},
                          !.leavers = ctl.leavers \ {ctl.component},
                          !.token = NoToken,
                          !.pc = IF ctl.leavers = {ctl.component} THEN "sleep"
                                 ELSE "leavers"]
    /\ UNCHANGED ctlIdle

\* run_loop: tokio::time::sleep(topo_fetch_interval) returns.
CtlSleepEnds ==
    /\ ctl.pc = "sleep"
    /\ ctl' = [ctl EXCEPT !.pc = "fetch"]
    /\ UNCHANGED ctlIdle

\* run: the host's shutdown signal wins the select over run_loop, which is
\* dropped at its await; shutdown_all_components starts.
CtlHostShutdown ==
    /\ ctl.pc \in {"fetch", "wait_exit", "sleep"}
    /\ ctl' = [ctl EXCEPT
                 !.pc = "shutdown_all",
                 !.todo = {c \in Comps : ctl.running_components[c] # NoToken},
                 !.token = NoToken]
    /\ UNCHANGED ctlIdle

\* shutdown_all_components: the next entry of running_components is shut
\* down.
CtlShutdownComponent(component) ==
    /\ ctl.pc = "shutdown_all"
    /\ component \in ctl.todo
    /\ ctl' = [shutdown(ctl, ctl.running_components[component]) EXCEPT
                 !.component = component,
                 !.token = ctl.running_components[component],
                 !.pc = "wait_all"]
    /\ UNCHANGED ctlIdle

\* shutdown_all_components: wait_for_exit of that entry returns.
CtlShutdownWaited ==
    /\ ctl.pc = "wait_all"
    /\ exit_acknowledged(ctl, ctl.token)
    /\ ctl' = [ctl EXCEPT !.todo = ctl.todo \ {ctl.component}, !.token = NoToken,
                          !.pc = "shutdown_all"]
    /\ UNCHANGED ctlIdle

\* shutdown_all_components after its loop: drop(self.shutdown_subscriber)
\* and self.shutdown_notifier.shutdown().
CtlReleaseRoot ==
    /\ ctl.pc = "shutdown_all"
    /\ ctl.todo = {}
    /\ ctl' = [shutdown(ctl, RootToken) EXCEPT !.root.held = FALSE, !.token = RootToken,
                                               !.pc = "wait_root"]
    /\ UNCHANGED ctlIdle

\* shutdown_all_components: the root's wait_for_exit returns.
CtlReturns ==
    /\ ctl.pc = "wait_root"
    /\ exit_acknowledged(ctl, RootToken)
    /\ ctl' = [ctl EXCEPT !.pc = "returned"]
    /\ UNCHANGED ctlIdle

\* A subscriber task observes shutdown in the select of TopSQLSource::run
\* and exits, dropping its subscriber.
TaskExits(i) ==
    /\ i \in DOMAIN ctl.tasks
    /\ ctl.tasks[i].alive
    /\ done(ctl, i)
    /\ ctl' = [ctl EXCEPT !.tasks[i].alive = FALSE]
    /\ UNCHANGED ctlIdle

\* The schema manager's update loop observes the root's shutdown and ends.
SchemaManagerExits ==
    /\ ctl.schema_manager = "running"
    /\ ctl.root.signalled
    /\ ctl' = [ctl EXCEPT !.schema_manager = "exited"]
    /\ UNCHANGED ctlIdle

NextController ==
    \/ \E ok \in BOOLEAN, latest \in SUBSET Comps : CtlStartSchemaManager(ok, latest)
    \/ \E ok \in BOOLEAN, latest \in SUBSET Comps : CtlFetch(ok, latest)
    \/ \E leaver \in Comps : CtlStopComponent(leaver)
    \/ CtlStopped
    \/ CtlSleepEnds
    \/ CtlHostShutdown
    \/ \E component \in Comps : CtlShutdownComponent(component)
    \/ CtlShutdownWaited
    \/ CtlReleaseRoot
    \/ CtlReturns
    \/ \E i \in DOMAIN ctl.tasks : TaskExits(i)
    \/ SchemaManagerExits

SpecController == CtlInit /\ [][NextController]_vars

\* Every step that can be taken is taken in the end: the controller goes on
\* and each spawned task exits once it observes shutdown.
SpecControllerFair == SpecController /\ WF_vars(NextController)

\* ---- claims about the controller
ShutdownStarted == ctl.pc \in {"shutdown_all", "wait_all", "wait_root"}

Returned19 == ctl.pc = "returned"

AliveTasks(component) ==
    {i \in DOMAIN ctl.tasks : ctl.tasks[i].alive /\ ctl.tasks[i].component = component}

TokenSignalled(token) ==
    IF token = RootToken THEN ctl.root.signalled ELSE ctl.tasks[token].signalled

\* C19: controller shutdown always completes: once shutdown_all_components
\* has started it eventually returns (each spawned task exiting once it
\* observes shutdown), and when it has returned every handle of
\* running_components was signalled and no subscriber task is alive.
C19_ShutdownCompletes ==
    /\ [](Returned19 =>
            /\ \A c \in Comps : ctl.running_components[c] # NoToken
                                  => TokenSignalled(ctl.running_components[c])
            /\ \A c \in Comps : AliveTasks(c) = {})
    /\ (ShutdownStarted ~> Returned19)

\* shutdown_all_components waits for the exit of the root token, whose
\* notifier start_schema_manager_if_needed put in running_components, while
\* the controller still holds the root subscriber; every task has exited.
C19_Witness ==
    /\ ctl.pc = "wait_all"
    /\ ctl.token = RootToken
    /\ ctl.component = "tidb"
    /\ ctl.root.held
    /\ ctl.schema_manager = "exited"
    /\ \A c \in Comps : AliveTasks(c) = {}

\* C20: no two subscriber tasks of one Component are alive together, and
\* when a Component has been respawned its previous subscriber had been
\* signalled by its own notifier and had exited.
C20_OneSubscriberPerComponent ==
    /\ \A c \in Comps : Cardinality(AliveTasks(c)) <= 1
    /\ \A i, j \in DOMAIN ctl.tasks :
          (i < j /\ ctl.tasks[i].component = ctl.tasks[j].component)
            => (ctl.tasks[i].signalled /\ ~ctl.tasks[i].alive)

\* A component left, its subscriber was stopped, and it was respawned by
\* the following fetch; the second subscriber is alive.
C20_Witness ==
    /\ \E i, j \in DOMAIN ctl.tasks :
          /\ i < j
          /\ ctl.tasks[i].component = ctl.tasks[j].component
          /\ ctl.tasks[j].alive
          /\ ~ctl.root.signalled

\* ------------------------------------------- the subscriber task, step by step
\* TopSQLSource::run at the grain of its await points: the three steps of
\* build_stream, the select loop of run_once with its window buffer, the
\* sends to the output, and the retry sleep.
\* The configured init_retry_delay: none, or a second.
RunDelays == {0, 1}

\* run_loop, State::RetryDelay: retry_delay doubled and capped, then
\* time::sleep(self.retry_delay) is awaited.
retry_after_delay(s, event) ==
    [s EXCEPT !.retry_delay = next_retry_delay(s.retry_delay),
              !.slept = s.slept + 1,
              !.failures = s.failures + 1,
              !.responses = <<>>,
              !.event = event,
              !.pc = "sleeping"]

stream_break_state_always_delay(item) == "RetryDelay"

\* run_once: the State its loop breaks with when the stream yields an error
\* or ends.
stream_break_state(item) == IF item = "error" THEN "RetryDelay" ELSE "RetryNow"

\* run_loop: the match on the State run_once returned.
after_run_once(s, state, event) ==
    IF state = "RetryDelay" THEN retry_after_delay(s, event)
    ELSE [s EXCEPT !.pc = "build_endpoint", !.responses = <<>>, !.event = event]

shutdown_unblocks_stream_only(pc) == pc = "streaming"

\* run: the select holds the whole of run_loop, so shutdown.done() is polled
\* at whichever await run_loop is suspended in.
shutdown_unblocks(pc) == pc # "stopped"

flush_due_at_threshold(now_ts, last_event_recv_ts, responses) ==
    now_ts >= last_event_recv_ts + FLUSH_IDLE_SECS /\ responses # <<>>

\* run_once, the tick arm: the buffer is flushed when the clock is more than
\* FLUSH_IDLE_SECS past the last receive and the buffer is not empty.
flush_due(now_ts, last_event_recv_ts, responses) ==
    now_ts > last_event_recv_ts + FLUSH_IDLE_SECS /\ responses # <<>>

\* TopSQLSource::new, and run about to enter run_loop.  The ghost fields:
\* event, the last step of the task; slept, the number of sleeps started;
\* batches, the buffers handed to handle_responses with the time of the
\* tick; received, the number of responses taken from the stream so far.
RunInit ==
    /\ \E d \in RunDelays :
         sub = [pc |-> "build_endpoint", signalled |-> FALSE,
                init_retry_delay |-> d, retry_delay |-> d,
                now_ts |-> 0, last_event_recv_ts |-> 0,
                responses |-> <<>>, batch |-> <<>>,
                event |-> "start", slept |-> 0, failures |-> 0, connects |-> 0,
                received |-> 0, batches |-> <<>>]
    /\ CoreUnused
    /\ par = Unused
    /\ etag = Unused
    /\ gcs = Unused
    /\ az = Unused
    /\ ctl = Unused

\* build_stream: U::build_endpoint returns.
RunEndpointBuilt(ok) ==
    /\ sub.pc = "build_endpoint"
    /\ ok \/ sub.failures < MaxRunFailures
    /\ sub' = IF ok THEN [sub EXCEPT !.pc = "connect", !.event = "endpoint_built"]
              ELSE retry_after_delay(sub, "endpoint_failed")
    /\ UNCHANGED subIdle

\* build_stream: endpoint.connect() returns.
RunChannelConnected(ok) ==
    /\ sub.pc = "connect"
    /\ ok \/ sub.failures < MaxRunFailures
    /\ sub' = IF ok THEN [sub EXCEPT !.pc = "subscribe", !.event = "channel_connected"]
              ELSE retry_after_delay(sub, "connect_failed")
    /\ UNCHANGED subIdle

\* build_stream: U::build_stream returns; on success run_once calls
\* on_connected and enters its loop with an empty buffer.
RunSubscribed(ok) ==
    /\ sub.pc = "subscribe"
    /\ IF ok THEN sub.connects < MaxRunConnects ELSE sub.failures < MaxRunFailures
    /\ sub' = IF ok
              THEN [on_connected(sub) EXCEPT !.pc = "streaming", !.event = "subscribed",
                                             !.connects = sub.connects + 1,
                                             !.responses = <<>>,
                                             !.last_event_recv_ts = sub.now_ts]
              ELSE retry_after_delay(sub, "subscribe_failed")
    /\ UNCHANGED subIdle

\* run_once: the stream yields Some(Ok(response)).
RunReceives ==
    /\ sub.pc = "streaming"
    /\ sub.received < MaxReceived
    /\ sub' = [sub EXCEPT !.responses = Append(sub.responses,
                                               [id |-> sub.received + 1,
                                                recv_ts |-> sub.now_ts]),
                          !.received = sub.received + 1,
                          !.last_event_recv_ts = sub.now_ts,
                          !.event = "received"]
    /\ UNCHANGED subIdle

\* run_once: the stream yields Some(Err(error)).
RunStreamError ==
    /\ sub.pc = "streaming"
    /\ sub.failures < MaxRunFailures
    /\ sub' = after_run_once(sub, stream_break_state("error"), "stream_error")
    /\ UNCHANGED subIdle

\* run_once: the stream yields None; State::RetryNow, and run_loop calls
\* run_once again.
RunStreamEnds ==
    /\ sub.pc = "streaming"
    /\ stream_break_state("none") = "RetryDelay" => sub.failures < MaxRunFailures
    /\ sub' = after_run_once(sub, stream_break_state("none"), "stream_end")
    /\ UNCHANGED subIdle

\* run_once, the 1-second tick: handle_responses takes the buffer and awaits
\* send_batch when the flush is due.
RunTick ==
    /\ sub.pc = "streaming"
    /\ sub' = IF flush_due(sub.now_ts, sub.last_event_recv_ts, sub.responses)
              THEN [sub EXCEPT !.pc = "flushing", !.batch = sub.responses,
                               !.batches = Append(sub.batches,
                                                  [items |-> sub.responses,
                                                   at |-> sub.now_ts]),
                               !.responses = <<>>, !.event = "tick_flush"]
              ELSE [sub EXCEPT !.event = "tick"]
    /\ UNCHANGED subIdle

\* handle_responses: send_batch returns (an error is only reported), and the
\* loop goes on with responses = vec![].
RunBatchSent ==
    /\ sub.pc = "flushing"
    /\ sub' = [sub EXCEPT !.pc = "streaming", !.batch = <<>>, !.event = "batch_sent"]
    /\ UNCHANGED subIdle

\* run_once, the 30-second tick: handle_instance awaits send_event.
RunInstanceTick ==
    /\ sub.pc = "streaming"
    /\ sub' = [sub EXCEPT !.pc = "instance", !.event = "instance_tick"]
    /\ UNCHANGED subIdle

\* handle_instance: send_event returns.
RunInstanceSent ==
    /\ sub.pc = "instance"
    /\ sub' = [sub EXCEPT !.pc = "streaming", !.event = "instance_sent"]
    /\ UNCHANGED subIdle

\* time::sleep(self.retry_delay) returns, and run_loop calls run_once.
RunWakes ==
    /\ sub.pc = "sleeping"
    /\ sub' = [sub EXCEPT !.pc = "build_endpoint", !.event = "woke"]
    /\ UNCHANGED subIdle

\* chrono::Local::now().timestamp() moves on by a second.
RunSecondPasses ==
    /\ sub.pc # "stopped"
    /\ sub.now_ts < MaxClock
    /\ sub' = [sub EXCEPT !.now_ts = sub.now_ts + 1]
    /\ UNCHANGED subIdle

\* The controller shuts the task's token down.
RunSignalled ==
    /\ ~sub.signalled
    /\ sub.pc # "stopped"
    /\ sub' = [sub EXCEPT !.signalled = TRUE]
    /\ UNCHANGED subIdle

\* run: shutdown.done() wins the select over run_loop, which is dropped at
\* the await it is suspended in.
RunShutdown ==
    /\ sub.signalled
    /\ sub.pc # "stopped"
    /\ shutdown_unblocks(sub.pc)
    /\ sub' = [sub EXCEPT !.pc = "stopped", !.event = "shutdown"]
    /\ UNCHANGED subIdle

NextRun ==
    \/ \E ok \in BOOLEAN : RunEndpointBuilt(ok)
    \/ \E ok \in BOOLEAN : RunChannelConnected(ok)
    \/ \E ok \in BOOLEAN : RunSubscribed(ok)
    \/ RunReceives
    \/ RunStreamError
    \/ RunStreamEnds
    \/ RunTick
    \/ RunBatchSent
    \/ RunInstanceTick
    \/ RunInstanceSent
    \/ RunWakes
    \/ RunSecondPasses
    \/ RunSignalled
    \/ RunShutdown

SpecRun == RunInit /\ [][NextRun]_vars

\* The select of run polls shutdown.done() whenever run_loop is suspended:
\* once the token is signalled the shutdown arm is taken.
SpecRunFair == SpecRun /\ WF_vars(RunShutdown)

\* ---- claims about the subscriber task
ConnectFailures == {"endpoint_failed", "connect_failed", "subscribe_failed"}

\* C21: once its token is signalled the task eventually exits, whatever it
\* is suspended in; it exits for no other reason; and the sleep after a
\* connect failure or a stream error ends in another connection attempt
\* unless the task is shut down.
C21_ExitsOnShutdownOnly ==
    /\ (sub.signalled ~> sub.pc = "stopped")
    /\ [](sub.pc = "stopped" => sub.signalled)
    /\ [](sub.event \in ConnectFailures \cup {"stream_error"} => sub.pc = "sleeping")
    /\ [][sub.pc = "sleeping" => sub'.pc \in {"sleeping", "build_endpoint", "stopped"}]_vars

\* The task was shut down while a batch was being sent to the output, after
\* a failure had made it reconnect.
C21_Witness ==
    /\ sub.pc = "stopped"
    /\ sub.signalled
    /\ sub.batch # <<>>
    /\ sub.failures > 0

\* C29: a stream error and a failure of any connect step start the backoff
\* sleep; the end of the stream leads straight to build_stream, with no
\* sleep and the retry delay unchanged; a sleep is left only for a new
\* connection attempt or by shutdown.
C29_StreamTransitions ==
    [][ /\ (sub.pc = "streaming" /\ sub'.event = "stream_error")
            => (sub'.pc = "sleeping" /\ sub'.slept = sub.slept + 1)
        /\ (sub.pc = "streaming" /\ sub'.event = "stream_end")
            => /\ sub'.pc = "build_endpoint"
               /\ sub'.slept = sub.slept
               /\ sub'.retry_delay = sub.retry_delay
        /\ (sub.pc \in {"build_endpoint", "connect", "subscribe"}
              /\ sub'.event \in ConnectFailures)
            => (sub'.pc = "sleeping" /\ sub'.slept = sub.slept + 1)
        /\ sub.pc = "sleeping" => sub'.pc \in {"sleeping", "build_endpoint", "stopped"}
      ]_vars

\* The stream ended on a subscriber that had slept once before it connected:
\* it is building the endpoint again, its delay still the initial one.
C29_Witness ==
    /\ sub.event = "stream_end"
    /\ sub.pc = "build_endpoint"
    /\ sub.slept = 1
    /\ sub.init_retry_delay = 1
    /\ sub.retry_delay = 1

\* C30: every flush took a non-empty buffer at a tick more than 10 s after
\* the last record of the buffer was received; it took the whole buffer as
\* one batch, up to the last record received, and left the buffer empty.
C30_FlushAfterIdleWindow ==
    /\ \A i \in DOMAIN sub.batches :
          /\ sub.batches[i].items # <<>>
          /\ \A k \in DOMAIN sub.batches[i].items :
                /\ sub.batches[i].at > sub.batches[i].items[k].recv_ts + 10
                /\ k > 1 => sub.batches[i].items[k].id = sub.batches[i].items[k - 1].id + 1
    /\ sub.event = "tick_flush" =>
          /\ sub.responses = <<>>
          /\ sub.batches # <<>>
          /\ sub.batch = sub.batches[Len(sub.batches)].items
          /\ sub.batch[Len(sub.batch)].id = sub.received

\* Two records received 1 s apart were flushed together at the tick 11 s
\* after the second.
C30_Witness ==
    /\ sub.event = "tick_flush"
    /\ Len(sub.batch) = 2
    /\ sub.batch[2].recv_ts = sub.batch[1].recv_ts + 1
    /\ sub.now_ts = sub.batch[2].recv_ts + 11

\* fetch_and_update has returned Ok and run_loop sleeps.
FetchReturnedOk == ctl.pc = "sleep" /\ ctl.fetched = "ok"

\* C22: after a successful fetch_and_update with snapshot S, components is
\* the set of members of S a subscriber can be constructed for, each of them
\* has its own handle in running_components and one live subscriber, no
\* Component outside S is in components or has a live subscriber, and a
\* member of S whose spawn failed is not in components, hence a newcomer
\* again at the next fetch.
C22_ComponentsMatchSnapshot ==
    FetchReturnedOk =>
      /\ ctl.components = {c \in ctl.latest : has_topsql_address(c)}
      /\ \A c \in ctl.components :
            /\ ctl.running_components[c] \notin {NoToken, RootToken}
            /\ AliveTasks(c) = {ctl.running_components[c]}
      /\ \A c \in Comps \ ctl.latest : c \notin ctl.components /\ AliveTasks(c) = {}
      /\ \A c \in ctl.latest :
            ~has_topsql_address(c) =>
                (c \notin ctl.components /\ c \in newcomers(ctl.latest, ctl.components))

\* The TiDB had a subscriber and left; the snapshot holds the TiKV and the
\* PD, for which no subscriber can be built.
C22_Witness ==
    /\ FetchReturnedOk
    /\ ctl.latest = {"tikv", "pd"}
    /\ ctl.components = {"tikv"}
    /\ \E i \in DOMAIN ctl.tasks : ctl.tasks[i].component = "tidb" /\ ~ctl.tasks[i].alive

\* ------------------------------------------------------ the TopSQL parsers
\* stmt_kv_exec_count: a map from a TiKV instance to a count.
EmptyKv == [k \in {} |-> 0]

KvGet(kv, k) == IF k \in DOMAIN kv THEN kv[k] ELSE 0

\* The element-wise sum of two stmt_kv_exec_count maps, as the loops with
\* get and insert compute it.
kv_add(a, b) == [k \in DOMAIN a \cup DOMAIN b |-> KvGet(a, k) + KvGet(b, k)]

\* TopSqlRecordItem
TidbItem(ts, cpu, exec, kv, dsum, dcount) ==
    [timestamp_sec |-> ts, cpu_time_ms |-> cpu, stmt_exec_count |-> exec,
     stmt_kv_exec_count |-> kv, stmt_duration_sum_ns |-> dsum,
     stmt_duration_count |-> dcount]

\* GroupTagRecordItem
TikvItem(ts, cpu, read, write) ==
    [timestamp_sec |-> ts, cpu_time_ms |-> cpu, read_keys |-> read, write_keys |-> write]

\* The items a record can hold at a timestamp: a light and a heavy one of
\* each kind.
TidbLight(ts) == TidbItem(ts, 1, 1, [k \in {"tikv-1"} |-> 1], 2, 1)

TidbHeavy(ts) == TidbItem(ts, 2, 2, EmptyKv, 3, 2)

TikvLight(ts) == TikvItem(ts, 1, 1, 0)

TikvHeavy(ts) == TikvItem(ts, 2, 3, 1)

\* A response that is a record (TopSqlRecord, GroupTagRecord) under a key,
\* and one that is not (SqlMeta, PlanMeta, or no oneof).
MkRecord(key, items) == [kind |-> "record", key |-> key, items |-> items]

MetaResponse == [kind |-> "meta", key |-> "", items |-> <<>>]

\* The keys of the records: the others key (empty sql_digest), two digests,
\* and for TiKV a resource_group_tag that decode_tag cannot decode.
TidbKeys == {"", "A", "B"}

TikvKeys == {"", "A", "B", "undecodable"}

\* ResourceUsageRecordParser::decode_tag: the sql_digest of the tag, or
\* None.
NoTag == "None"

decode_tag(tag) == IF tag = "undecodable" THEN NoTag ELSE tag

SeqsUpTo(S, n) == UNION {[1..k -> S] : k \in 0..n}

\* The inputs of keep_top_n: up to MaxResponses responses, each a record of
\* one item at timestamp 1 or 2, or of two items, or not a record.
KeepResponses(Light(_), Heavy(_), RecordKeys) ==
    {MetaResponse}
      \cup {MkRecord(key, items) :
              key \in RecordKeys,
              items \in {<<Light(1)>>, <<Heavy(1)>>, <<Heavy(2)>>, <<Light(1), Heavy(2)>>}}

\* The inputs of downsampling: a record of up to MaxItems items with
\* timestamps 0..MaxTs, and intervals around the threshold of 1.
DownItems(Light(_), Heavy(_)) ==
    SeqsUpTo({Light(ts) : ts \in 0..MaxTs} \cup {Heavy(ts) : ts \in 0..MaxTs}, MaxItems)

DownIntervals == {0, 1, 2, 3}

TopNs == {1, 2}

RECURSIVE flatten_items(_, _)
\* The items of the records among responses[i..], each with the key of its
\* record, in the order the loops over responses and items meet them.
flatten_items(responses, i) ==
    IF i > Len(responses) THEN <<>>
    ELSE LET r == responses[i]
         IN  (IF r.kind = "record"
              THEN [k \in DOMAIN r.items |-> [key |-> r.key, item |-> r.items[k]]]
              ELSE <<>>) \o flatten_items(responses, i + 1)

sort_by_input_order(v) == v

RECURSIVE sort_by_cpu_time_desc(_)
\* v.sort_by(|psd1, psd2| psd2.cpu_time_ms.cmp(&psd1.cpu_time_ms)): stable,
\* by cpu_time_ms descending.
sort_by_cpu_time_desc(v) ==
    IF v = <<>> THEN <<>>
    ELSE LET rest == sort_by_cpu_time_desc(Tail(v))
             h == Head(v)
             before == {k \in DOMAIN rest : rest[k].item.cpu_time_ms > h.item.cpu_time_ms}
             n == Cardinality(before)
         IN  SubSeq(rest, 1, n) \o <<h>> \o SubSeq(rest, n + 1, Len(rest))

\* ts_digests[ts]: the per-second digests of timestamp ts, in input order.
per_second(psds, ts) ==
    LET AtTs(e) == e.item.timestamp_sec = ts IN SelectSeq(psds, AtTs)

kept_at_all(psds, top_n, ts) == per_second(psds, ts)

\* ts_digests[ts] after the loop over ts_digests: truncated to top_n when
\* longer.
kept_at(psds, top_n, ts) ==
    LET v == per_second(psds, ts)
    IN  IF Len(v) <= top_n THEN v ELSE SubSeq(sort_by_cpu_time_desc(v), 1, top_n)

\* evicted = v.split_at(top_n).1, empty when v.len() <= top_n.
evicted_at(psds, top_n, ts) ==
    LET v == per_second(psds, ts)
    IN  IF Len(v) <= top_n THEN <<>>
        ELSE SubSeq(sort_by_cpu_time_desc(v), top_n + 1, Len(v))

RECURSIVE kept_by_ts(_, _, _, _)
\* The kept per-second digests of ts..max_ts, by timestamp ascending: the
\* order of the BTreeMap ts_digests.
kept_by_ts(psds, top_n, ts, max_ts) ==
    IF ts > max_ts THEN <<>>
    ELSE kept_at(psds, top_n, ts) \o kept_by_ts(psds, top_n, ts + 1, max_ts)

\* The first loop's ts_others.insert(item.timestamp_sec, item): the last
\* item of timestamp ts among the others records, or none.
inserted_others(others, ts) ==
    LET v == per_second(others, ts) IN IF v = <<>> THEN <<>> ELSE <<v[Len(v)].item>>

RECURSIVE tidb_sum_evicted(_, _, _, _)
\* TopSqlSubResponseParser::keep_top_n, the loop over evicted[i..]:
\* cpu_time_ms and the kv counts are added, the other three counters are
\* assigned.
tidb_sum_evicted(others, ts, evicted, i) ==
    IF i > Len(evicted) THEN others
    ELSE LET e == evicted[i].item
         IN  tidb_sum_evicted(
               TidbItem(ts, others.cpu_time_ms + e.cpu_time_ms, e.stmt_exec_count,
                        kv_add(others.stmt_kv_exec_count, e.stmt_kv_exec_count),
                        e.stmt_duration_sum_ns, e.stmt_duration_count),
               ts, evicted, i + 1)

\* TopSqlSubResponseParser::keep_top_n, the Some(existed_others) arm.
tidb_merge_others(existed, others) ==
    TidbItem(existed.timestamp_sec,
             existed.cpu_time_ms + others.cpu_time_ms,
             existed.stmt_exec_count + others.stmt_exec_count,
             kv_add(existed.stmt_kv_exec_count, others.stmt_kv_exec_count),
             existed.stmt_duration_sum_ns + others.stmt_duration_sum_ns,
             existed.stmt_duration_count + others.stmt_duration_count)

RECURSIVE tikv_sum_evicted(_, _, _, _)
\* ResourceUsageRecordParser::keep_top_n, the loop over evicted[i..].
tikv_sum_evicted(others, ts, evicted, i) ==
    IF i > Len(evicted) THEN others
    ELSE LET e == evicted[i].item
         IN  tikv_sum_evicted(
               TikvItem(ts, others.cpu_time_ms + e.cpu_time_ms,
                        others.read_keys + e.read_keys,
                        others.write_keys + e.write_keys),
               ts, evicted, i + 1)

\* ResourceUsageRecordParser::keep_top_n, the Some(existed_others) arm.
tikv_merge_others(existed, others) ==
    TikvItem(existed.timestamp_sec,
             existed.cpu_time_ms + others.cpu_time_ms,
             existed.read_keys + others.read_keys,
             existed.write_keys + others.write_keys)

\* The loop over evicted of a parser, from the default item.
sum_evicted(parser, ts, evicted) ==
    IF parser = "tidb"
    THEN tidb_sum_evicted(TidbItem(0, 0, 0, EmptyKv, 0, 0), ts, evicted, 1)
    ELSE tikv_sum_evicted(TikvItem(0, 0, 0, 0), ts, evicted, 1)

\* The update of an existing ts_others entry of a parser.
merge_others(parser, existed, others) ==
    IF parser = "tidb" THEN tidb_merge_others(existed, others)
    ELSE tikv_merge_others(existed, others)

\* keep_top_n of both parsers, which differ in their items.
\* The result: the responses passed through, in order, and the records
\* built from digest_items, a HashMap.
keep_top_n_per_second(responses, top_n, parser) ==
    LET flat == flatten_items(responses, 1)
        IsOthers(e) == e.key = ""
        IsDigest(e) == e.key # ""
        IsPassed(r) == r.kind # "record"
        others == SelectSeq(flat, IsOthers)
        psds == SelectSeq(flat, IsDigest)
        Tss == {flat[i].item.timestamp_sec : i \in DOMAIN flat}
        max_ts == IF Tss = {} THEN 0 ELSE CHOOSE t \in Tss : \A u \in Tss : u <= t
        ts_others(ts) ==
            LET existed == inserted_others(others, ts)
                evicted == evicted_at(psds, top_n, ts)
            IN  IF evicted = <<>> THEN existed
                ELSE IF existed = <<>> THEN <<sum_evicted(parser, ts, evicted)>>
                ELSE <<merge_others(parser, existed[1], sum_evicted(parser, ts, evicted))>>
        RECURSIVE OthersItems(_)
        OthersItems(ts) ==
            IF ts > max_ts THEN <<>> ELSE ts_others(ts) \o OthersItems(ts + 1)
        kept == kept_by_ts(psds, top_n, 0, max_ts)
        ItemsOf(key) ==
            LET Mine(e) == e.key = key
                mine == SelectSeq(kept, Mine)
            IN  [k \in DOMAIN mine |-> mine[k].item]
    IN  [passed |-> SelectSeq(responses, IsPassed),
         records |->
            {MkRecord(key, ItemsOf(key)) : key \in {kept[k].key : k \in DOMAIN kept}}
              \cup (IF OthersItems(0) = <<>> THEN {}
                    ELSE {MkRecord("", OthersItems(0))})]

\* TopSqlSubResponseParser::keep_top_n
tidb_keep_top_n(responses, top_n) == keep_top_n_per_second(responses, top_n, "tidb")

\* ResourceUsageRecordParser::keep_top_n: a record whose tag does not decode
\* is skipped by `continue`; the others have the sql_digest of their tag
\* tested, and are grouped by their tag.
tikv_keep_top_n(responses, top_n) ==
    LET Decodes(r) == r.kind # "record" \/ decode_tag(r.key) # NoTag
    IN  keep_top_n_per_second(SelectSeq(responses, Decodes), top_n, "tikv")

bucket_ts_floor(timestamp_sec, interval_sec) ==
    timestamp_sec - (timestamp_sec % interval_sec)

\* downsampling: new_ts of an item.
bucket_ts(timestamp_sec, interval_sec) ==
    timestamp_sec + (interval_sec - (timestamp_sec % interval_sec))

\* The sum of two items of a parser: the += of every counter.
add_item(parser, a, b) ==
    IF parser = "tidb" THEN tidb_merge_others(a, b) ELSE tikv_merge_others(a, b)

downsample_bucket_last(new_item, items, i, new_ts, parser) ==
    IF items = <<>> THEN <<>>
    ELSE <<[items[Len(items)] EXCEPT !.timestamp_sec = new_ts]>>

RECURSIVE downsample_bucket(_, _, _, _, _)
\* downsampling: new_items[new_ts] after the loop over items[i..]; the first
\* item of the bucket is cloned with the bucket's timestamp, the following
\* ones are added to it.  new_item is <<>> while the bucket is vacant.
downsample_bucket(new_item, items, i, new_ts, parser) ==
    IF i > Len(items) THEN new_item
    ELSE downsample_bucket(
           IF new_item = <<>> THEN <<[items[i] EXCEPT !.timestamp_sec = new_ts]>>
           ELSE <<add_item(parser, new_item[1], items[i])>>,
           items, i + 1, new_ts, parser)

\* downsampling of one record's items: new_items.into_values(), by bucket
\* timestamp ascending.
downsample_items(items, interval_sec, parser) ==
    LET Buckets == {bucket_ts(items[i].timestamp_sec, interval_sec) : i \in DOMAIN items}
        max_ts == IF Buckets = {} THEN 0 ELSE CHOOSE t \in Buckets : \A u \in Buckets : u <= t
        InBucket(b) ==
            LET In(item) == bucket_ts(item.timestamp_sec, interval_sec) = b
            IN  SelectSeq(items, In)
        RECURSIVE From(_)
        From(b) ==
            IF b > max_ts THEN <<>>
            ELSE downsample_bucket(<<>>, InBucket(b), 1, b, parser) \o From(b + 1)
    IN  From(0)

\* downsampling: nothing is done for interval_sec <= 1; otherwise the items
\* of each record are replaced.
downsampling(responses, interval_sec, parser) ==
    IF interval_sec <= 1 THEN responses
    ELSE [i \in DOMAIN responses |->
            IF responses[i].kind = "record"
            THEN [responses[i] EXCEPT
                    !.items = downsample_items(responses[i].items, interval_sec, parser)]
            ELSE responses[i]]

\* TopSqlSubResponseParser::downsampling
tidb_downsampling(responses, interval_sec) ==
    downsampling(responses, interval_sec, "tidb")

\* ResourceUsageRecordParser::downsampling
tikv_downsampling(responses, interval_sec) ==
    downsampling(responses, interval_sec, "tikv")

\* keep_top_n of the extension's TiDB parser: the total cpu_time_ms of a
\* digest over the records that have it.
RECURSIVE SeqSum(_)
SeqSum(s) == IF s = <<>> THEN 0 ELSE Head(s) + SeqSum(Tail(s))

digest_cpu_time(responses, key) ==
    LET flat == flatten_items(responses, 1)
    IN  SeqSum([k \in DOMAIN flat |->
                  IF flat[k].key = key THEN flat[k].item.cpu_time_ms ELSE 0])

\* The sets top_sql_plan can be: cpu_time_vec sorted by total descending and
\* truncated to top_n; the order of equal totals is that of a HashMap.
top_sql_plans(responses, top_n) ==
    LET present == {responses[i].key :
                      i \in {j \in DOMAIN responses : responses[j].kind = "record"}} \ {""}
    IN  {top \in SUBSET present :
           /\ Cardinality(top) = IF Cardinality(present) < top_n
                                 THEN Cardinality(present) ELSE top_n
           /\ \A a \in top, b \in present \ top :
                 digest_cpu_time(responses, a) >= digest_cpu_time(responses, b)}

RECURSIVE merge_by_ts(_, _, _, _)
\* others_ts_item after the loop over the items[i..] of records_others: the
\* first item of a timestamp is inserted, the following are added to it.
merge_by_ts(others_ts_item, items, i, parser) ==
    IF i > Len(items) THEN others_ts_item
    ELSE LET item == items[i]
             at == {k \in DOMAIN others_ts_item :
                      others_ts_item[k].timestamp_sec = item.timestamp_sec}
             below == {k \in DOMAIN others_ts_item :
                         others_ts_item[k].timestamp_sec < item.timestamp_sec}
             n == Cardinality(below)
         IN  merge_by_ts(
               IF at = {}
               THEN SubSeq(others_ts_item, 1, n) \o <<item>>
                      \o SubSeq(others_ts_item, n + 1, Len(others_ts_item))
               ELSE [others_ts_item EXCEPT
                       ![n + 1] = add_item(parser, others_ts_item[n + 1], item)],
               items, i + 1, parser)

\* keep_top_n of the extension's TiDB parser, for one of the sets
\* top_sql_plan can be: the records of the top digests and the other
\* responses, in order, then the others record.
ext_tidb_keep_top_n(responses, top_sql_plan) ==
    LET InResults(r) == r.kind # "record" \/ r.key \in top_sql_plan
        InOthers(r) == r.kind = "record" /\ r.key \notin top_sql_plan
        flat == flatten_items(SelectSeq(responses, InOthers), 1)
        items == [k \in DOMAIN flat |-> flat[k].item]
    IN  Append(SelectSeq(responses, InResults),
               MkRecord("", merge_by_ts(<<>>, items, 1, "tidb")))

\* One call of a parser function: its input, then its output.
ParInit ==
    /\ par \in [op : {"input"}, parser : {"tidb"}, fn : {"keep_top_n"},
                responses : SeqsUpTo(KeepResponses(TidbLight, TidbHeavy, TidbKeys),
                                     MaxResponses),
                arg : TopNs, out : {<<>>}]
         \cup [op : {"input"}, parser : {"tikv"}, fn : {"keep_top_n"},
               responses : SeqsUpTo(KeepResponses(TikvLight, TikvHeavy, TikvKeys),
                                    MaxResponses),
               arg : TopNs, out : {<<>>}]
         \cup [op : {"input"}, parser : {"tidb"}, fn : {"downsampling"},
               responses : {<<MetaResponse, MkRecord("A", items)>> :
                              items \in DownItems(TidbLight, TidbHeavy)},
               arg : DownIntervals, out : {<<>>}]
         \cup [op : {"input"}, parser : {"tikv"}, fn : {"downsampling"},
               responses : {<<MetaResponse, MkRecord("A", items)>> :
                              items \in DownItems(TikvLight, TikvHeavy)},
               arg : DownIntervals, out : {<<>>}]
    /\ CoreUnused
    /\ etag = Unused
    /\ gcs = Unused
    /\ az = Unused
    /\ sub = Unused
    /\ ctl = Unused

parIdle == <<coreVars, etag, gcs, az, sub, ctl>>

\* handle_responses calls keep_top_n of the TiDB parser.
ParTidbKeepTopN ==
    /\ par.op = "input" /\ par.parser = "tidb" /\ par.fn = "keep_top_n"
    /\ par' = [par EXCEPT !.op = "keep_top_n",
                          !.out = tidb_keep_top_n(par.responses, par.arg)]
    /\ UNCHANGED parIdle

\* handle_responses calls keep_top_n of the TiKV parser.
ParTikvKeepTopN ==
    /\ par.op = "input" /\ par.parser = "tikv" /\ par.fn = "keep_top_n"
    /\ par' = [par EXCEPT !.op = "keep_top_n",
                          !.out = tikv_keep_top_n(par.responses, par.arg)]
    /\ UNCHANGED parIdle

\* handle_responses of the extension calls keep_top_n of its TiDB parser.
ParExtTidbKeepTopN(top_sql_plan) ==
    /\ par.op = "input" /\ par.parser = "tidb" /\ par.fn = "keep_top_n"
    /\ top_sql_plan \in top_sql_plans(par.responses, par.arg)
    /\ par' = [par EXCEPT !.op = "ext_keep_top_n",
                          !.out = ext_tidb_keep_top_n(par.responses, top_sql_plan)]
    /\ UNCHANGED parIdle

\* downsampling of the TiDB parser.
ParTidbDownsampling ==
    /\ par.op = "input" /\ par.parser = "tidb" /\ par.fn = "downsampling"
    /\ par' = [par EXCEPT !.op = "downsampling",
                          !.out = tidb_downsampling(par.responses, par.arg)]
    /\ UNCHANGED parIdle

\* downsampling of the TiKV parser.
ParTikvDownsampling ==
    /\ par.op = "input" /\ par.parser = "tikv" /\ par.fn = "downsampling"
    /\ par' = [par EXCEPT !.op = "downsampling",
                          !.out = tikv_downsampling(par.responses, par.arg)]
    /\ UNCHANGED parIdle

NextParser ==
    \/ ParTidbKeepTopN
    \/ ParTikvKeepTopN
    \/ \E top_sql_plan \in SUBSET TidbKeys : ParExtTidbKeepTopN(top_sql_plan)
    \/ ParTidbDownsampling
    \/ ParTikvDownsampling

SpecParser == ParInit /\ [][NextParser]_vars

\* ------------------------------------------------- claims on the parsers
RECURSIVE SetToSeq(_)
SetToSeq(S) ==
    IF S = {} THEN <<>>
    ELSE LET x == CHOOSE y \in S : TRUE IN <<x>> \o SetToSeq(S \ {x})

\* The responses keep_top_n returned: those passed through, then the records
\* built from digest_items.
KeepOut == par.out.passed \o SetToSeq(par.out.records)

\* The sum of a counter over the items of timestamp ts of the records among
\* responses.
TotalAt(responses, ts, Counter(_)) ==
    LET at == per_second(flatten_items(responses, 1), ts)
    IN  SeqSum([k \in DOMAIN at |-> Counter(at[k].item)])

TidbCounters ==
    {"cpu_time_ms", "stmt_exec_count", "stmt_duration_sum_ns", "stmt_duration_count",
     "stmt_kv_exec_count[tikv-1]"}

TidbCounter(item, c) ==
    CASE c = "cpu_time_ms" -> item.cpu_time_ms
      [] c = "stmt_exec_count" -> item.stmt_exec_count
      [] c = "stmt_duration_sum_ns" -> item.stmt_duration_sum_ns
      [] c = "stmt_duration_count" -> item.stmt_duration_count
      [] c = "stmt_kv_exec_count[tikv-1]" -> KvGet(item.stmt_kv_exec_count, "tikv-1")

TikvCounters == {"cpu_time_ms", "read_keys", "write_keys"}

TikvCounter(item, c) ==
    CASE c = "cpu_time_ms" -> item.cpu_time_ms
      [] c = "read_keys" -> item.read_keys
      [] c = "write_keys" -> item.write_keys

TidbTotal(responses, ts, c) == TotalAt(responses, ts, LAMBDA item : TidbCounter(item, c))

TikvTotal(responses, ts, c) == TotalAt(responses, ts, LAMBDA item : TikvCounter(item, c))

\* C23: keep_top_n of the TiDB parser conserves every counter at every
\* timestamp: the sum over the items of the output records (the retained
\* digests and the others record) equals the sum over the items of the input
\* records, several others records included.
C23_TidbKeepTopNConserves ==
    (par.op = "keep_top_n" /\ par.parser = "tidb") =>
        \A ts \in 0..MaxTs : \A c \in TidbCounters :
            TidbTotal(KeepOut, ts, c) = TidbTotal(par.responses, ts, c)

\* keep_top_n(_, 1) evicted two items of one timestamp, and the others
\* record holds the stmt_exec_count of the last of them only.
C23_Witness ==
    /\ par.op = "keep_top_n" /\ par.parser = "tidb" /\ par.arg = 1
    /\ par.responses = <<MkRecord("A", <<TidbHeavy(1)>>), MkRecord("B", <<TidbLight(1)>>),
                         MkRecord("B", <<TidbHeavy(1)>>)>>
    /\ TidbTotal(par.responses, 1, "cpu_time_ms") = 5
    /\ TidbTotal(KeepOut, 1, "cpu_time_ms") = 5
    /\ TidbTotal(par.responses, 1, "stmt_exec_count") = 5
    /\ TidbTotal(KeepOut, 1, "stmt_exec_count") = 3

\* C24: keep_top_n of the TiKV parser conserves cpu_time_ms, read_keys and
\* write_keys at every timestamp: the sum over the items of the output
\* records equals the sum over the items of all input records.
C24_TikvKeepTopNConserves ==
    (par.op = "keep_top_n" /\ par.parser = "tikv") =>
        \A ts \in 0..MaxTs : \A c \in TikvCounters :
            TikvTotal(KeepOut, ts, c) = TikvTotal(par.responses, ts, c)

\* keep_top_n returned no record for an input of one record whose tag does
\* not decode.
C24_Witness ==
    /\ par.op = "keep_top_n" /\ par.parser = "tikv"
    /\ par.responses = <<MkRecord("undecodable", <<TikvHeavy(1)>>)>>
    /\ par.out.records = {}
    /\ TikvTotal(par.responses, 1, "cpu_time_ms") = 2
    /\ TikvTotal(KeepOut, 1, "cpu_time_ms") = 0

\* The sum of a counter over all the items of a record.
RecordTotal(record, Counter(_)) ==
    SeqSum([k \in DOMAIN record.items |-> Counter(record.items[k])])

\* C25: downsampling with interval_sec > 1 conserves every counter of every
\* record: the sum over the record's items after downsampling equals the sum
\* over its items before, for each counter and each key of
\* stmt_kv_exec_count.
C25_DownsamplingConserves ==
    (par.op = "downsampling" /\ par.arg > 1) =>
        /\ Len(par.out) = Len(par.responses)
        /\ \A i \in DOMAIN par.responses :
             par.responses[i].kind = "record" =>
                /\ par.out[i].kind = "record"
                /\ par.out[i].key = par.responses[i].key
                /\ par.parser = "tidb" =>
                     \A c \in TidbCounters :
                        RecordTotal(par.out[i], LAMBDA item : TidbCounter(item, c))
                          = RecordTotal(par.responses[i], LAMBDA item : TidbCounter(item, c))
                /\ par.parser = "tikv" =>
                     \A c \in TikvCounters :
                        RecordTotal(par.out[i], LAMBDA item : TikvCounter(item, c))
                          = RecordTotal(par.responses[i], LAMBDA item : TikvCounter(item, c))

\* Two items of one bucket were downsampled into one item that holds their
\* sums.
C25_Witness ==
    /\ par.op = "downsampling" /\ par.parser = "tidb" /\ par.arg = 2
    /\ par.responses[2].items = <<TidbLight(0), TidbHeavy(1)>>
    /\ par.out[2].items = <<TidbItem(2, 3, 3, [k \in {"tikv-1"} |-> 1], 5, 3)>>

\* The multiple of interval_sec in (timestamp_sec, timestamp_sec +
\* interval_sec].
NextMultiple(timestamp_sec, interval_sec) ==
    CHOOSE b \in (timestamp_sec + 1)..(timestamp_sec + interval_sec) : b % interval_sec = 0

\* C26: downsampling with interval I > 1 moves an item of timestamp t to the
\* bucket b that is the only multiple of I with t < b <= t + I (a timestamp
\* on a multiple of I moves to the next multiple); the output items of a
\* record are one per bucket, by strictly increasing timestamp; with an
\* interval <= 1 the responses are left unchanged.
C26_BucketBoundary ==
    par.op = "downsampling" =>
        /\ par.arg <= 1 => par.out = par.responses
        /\ par.arg > 1 =>
             \A i \in DOMAIN par.responses :
                par.responses[i].kind = "record" =>
                   LET items == par.responses[i].items
                       new_items == par.out[i].items
                       Across(b) ==
                           {k \in DOMAIN items :
                              NextMultiple(items[k].timestamp_sec, par.arg) = b}
                   IN  /\ \A k \in DOMAIN items :
                            Cardinality(
                              {b \in (items[k].timestamp_sec + 1)
                                       ..(items[k].timestamp_sec + par.arg) :
                                 b % par.arg = 0}) = 1
                       /\ {new_items[k].timestamp_sec : k \in DOMAIN new_items}
                            = {NextMultiple(items[k].timestamp_sec, par.arg) :
                                 k \in DOMAIN items}
                       /\ \A k \in DOMAIN new_items :
                            /\ k > 1 => new_items[k - 1].timestamp_sec
                                          < new_items[k].timestamp_sec
                            /\ new_items[k].cpu_time_ms
                                 = SeqSum([j \in DOMAIN items |->
                                             IF j \in Across(new_items[k].timestamp_sec)
                                             THEN items[j].cpu_time_ms ELSE 0])

\* With an interval of 2, an item at timestamp 2 moved to 4 and one at
\* timestamp 1 to 2, and the output is ordered by timestamp.
C26_Witness ==
    /\ par.op = "downsampling" /\ par.parser = "tikv" /\ par.arg = 2
    /\ par.responses[2].items = <<TikvLight(2), TikvHeavy(1)>>
    /\ par.out[2].items = <<TikvHeavy(2), TikvLight(4)>>

\* The digests of an input: the keys of its records that are neither the
\* others key nor a tag without a digest.
IsDigestKey(key) == key # "" /\ decode_tag(key) # NoTag

DistinctDigests(responses) ==
    {responses[i].key :
       i \in {j \in DOMAIN responses :
                responses[j].kind = "record" /\ IsDigestKey(responses[j].key)}}

\* The records among responses that have a digest, and those of the others
\* key.
DigestRecords(responses) ==
    {i \in DOMAIN responses : responses[i].kind = "record" /\ responses[i].key # ""}

OthersRecords(responses) ==
    {i \in DOMAIN responses : responses[i].kind = "record" /\ responses[i].key = ""}

\* The items with a digest among responses, each with its key.
DigestItems(responses) ==
    LET HasDigest(e) == IsDigestKey(e.key)
    IN  SelectSeq(flatten_items(responses, 1), HasDigest)

CountOf(seq, Test(_)) == Cardinality({k \in DOMAIN seq : Test(seq[k])})

\* C31: at every timestamp keep_top_n retains at most top_n items with a
\* digest; every retained item has a cpu_time_ms at least that of every item
\* evicted at the timestamp, and is an input item of its digest with its
\* counters unchanged; a timestamp with at most top_n such items keeps them
\* all and adds nothing to the others record.
C31_TopNSelectionPerTimestamp ==
    par.op = "keep_top_n" =>
        LET input == DigestItems(par.responses)
            kept == DigestItems(KeepOut)
            IsOthersRecord(r) == r.kind = "record" /\ r.key = ""
            others_in == flatten_items(SelectSeq(par.responses, IsOthersRecord), 1)
            others_out == flatten_items(SelectSeq(KeepOut, IsOthersRecord), 1)
        IN  \A ts \in 0..MaxTs :
               LET in_ts == per_second(input, ts)
                   kept_ts == per_second(kept, ts)
                   Evicted(cpu) ==
                       CountOf(in_ts, LAMBDA e : e.item.cpu_time_ms = cpu)
                         > CountOf(kept_ts, LAMBDA e : e.item.cpu_time_ms = cpu)
               IN  /\ Len(kept_ts) <= par.arg
                   /\ \A k \in DOMAIN kept_ts :
                        /\ CountOf(kept_ts, LAMBDA e : e = kept_ts[k])
                             <= CountOf(in_ts, LAMBDA e : e = kept_ts[k])
                        /\ \A i \in DOMAIN in_ts :
                              Evicted(in_ts[i].item.cpu_time_ms) =>
                                 kept_ts[k].item.cpu_time_ms >= in_ts[i].item.cpu_time_ms
                   /\ Len(in_ts) <= par.arg =>
                        /\ \A e \in {in_ts[i] : i \in DOMAIN in_ts} :
                              CountOf(kept_ts, LAMBDA x : x = e)
                                = CountOf(in_ts, LAMBDA x : x = e)
                        /\ \A o \in DOMAIN others_out :
                              others_out[o].item.timestamp_sec = ts =>
                                 \E i \in DOMAIN others_in : others_in[i] = others_out[o]
                   /\ Len(in_ts) > par.arg => Len(kept_ts) = par.arg

\* keep_top_n(_, 1): at timestamp 1 the heavy item of B was retained and the
\* light item of A went to the others record; at timestamp 2 the only item
\* was kept.
C31_Witness ==
    /\ par.op = "keep_top_n" /\ par.parser = "tidb" /\ par.arg = 1
    /\ par.responses = <<MkRecord("A", <<TidbLight(1), TidbHeavy(2)>>),
                         MkRecord("B", <<TidbHeavy(1)>>)>>
    /\ par.out.records = {MkRecord("A", <<TidbHeavy(2)>>), MkRecord("B", <<TidbHeavy(1)>>),
                          MkRecord("", <<TidbLight(1)>>)}

\* The responses in the buffer of run_once.
BufferedIds == {sub.responses[i].id : i \in DOMAIN sub.responses}

\* C37: every response received from the stream is passed to
\* handle_responses unless the task is shut down first; a response buffered
\* when the stream yields an error or ends is kept across the reconnect.  So
\* while the task runs every response received has been handed over or is in
\* the buffer.
C37_ReceivedResponsesAreKept ==
    sub.pc # "stopped" =>
        \A id \in 1..sub.received :
            \/ \E b \in DOMAIN sub.batches :
                  \E i \in DOMAIN sub.batches[b].items : sub.batches[b].items[i].id = id
            \/ id \in BufferedIds

\* The stream yielded an error with one response in the buffer: the task
\* goes to sleep with nothing buffered and nothing handed over.
C37_Witness ==
    /\ sub.event = "stream_error"
    /\ sub.pc = "sleeping"
    /\ sub.received = 1
    /\ sub.responses = <<>>
    /\ sub.batches = <<>>

====
